---- MODULE Spec2Model ----
(***************************************************************************)
(* The streaming protocol core of kai-client: the SSE line reader          *)
(* (parse_sse_stream), the dialect normalizer (parse_sse_event and the     *)
(* EVENT_PARSERS table), the stream accumulator (SSEStreamParser), and the *)
(* tool-call tracker and approval driver of                                *)
(* examples/test_tool_confirmation.py.                                     *)
(*                                                                         *)
(* Values.  A decoded JSON / Python value is a tagged record:              *)
(*   [t |-> "null"]            None / null                                 *)
(*   [t |-> "str",  s |-> ..]  a string                                    *)
(*   [t |-> "int",  n |-> ..]  an integer                                  *)
(*   [t |-> "bool", b |-> ..]  a boolean                                   *)
(*   [t |-> "obj",  f |-> ..]  a mapping; f is a function on its keys      *)
(*   [t |-> "list", items |-> ..]  a list                                  *)
(* A raw wire record (the dict handed to a parser) is the function f.      *)
(***************************************************************************)
EXTENDS Integers, Sequences, FiniteSets, TLC

VARIABLES
    status,     \* position of the caller: "streaming" | "ended" | "failed" | "cancelled" | "resolved"
    parser,     \* the SSEStreamParser instance (its six private fields)
    collect,    \* locals of stream_and_collect: text_parts, all_events, tool_states
    requests,   \* continuation requests issued by the approval driver, in order
    fed,        \* history: the lines read while this parser was consuming, since its last reset
    sent,       \* history: the lines read from the transport in the current stream
    norm_in,    \* the raw record handed to the normalizer (normalizer runs)
    norm_out,   \* the normalizer's result for norm_in, None before it ran
    error,      \* the exception that ended the event sequence, None if none was raised
    twin,       \* a second SSEStreamParser consuming a stream of its own, with its history
    snapshot,   \* the dict a caller got from the tool_calls property, None before it asked
    observed    \* the accumulator as the caller saw it on receiving the latest event, None before

vars == <<status, parser, collect, requests, fed, sent, norm_in, norm_out, error, twin,
          snapshot, observed>>

---------------------------------------------------------------------------
(* Bounds of the model *)

\* Lines the transport delivers before the model stops reading.
MaxLines == 3

---------------------------------------------------------------------------
(* Python / JSON values *)

None == [t |-> "null"]
S(x) == [t |-> "str", s |-> x]
N(x) == [t |-> "int", n |-> x]
B(x) == [t |-> "bool", b |-> x]
Obj(fn) == [t |-> "obj", f |-> fn]
Arr(items) == [t |-> "list", items |-> items]
EmptyDict == [k \in {} |-> None]

\* Python truthiness of a value (bool(v)).
Truthy(v) ==
    CASE v.t = "null" -> FALSE
      [] v.t = "str"  -> v.s # ""
      [] v.t = "int"  -> v.n # 0
      [] v.t = "bool" -> v.b
      [] v.t = "obj"  -> DOMAIN v.f # {}
      [] v.t = "list" -> v.items # <<>>

\* dict.get(key, default)
Get(data, key, default) == IF key \in DOMAIN data THEN data[key] ELSE default

\* "a or b" on Python values
Or(a, b) == IF Truthy(a) THEN a ELSE b

\* The result of a call that raised an exception of class exc instead of returning.
Exception(exc) == [cls |-> "Exception", exc |-> exc]
Raised(result) == result.cls = "Exception"

---------------------------------------------------------------------------
(* Individual event parsers (sse.py, "Individual Event Parsers").  An event
   is a record whose cls names the class the parser constructs; the classes
   are distinct (isinstance holds of an event's own class only), and a field
   a parser does not pass (approval) has the class's default, None. *)

\* Mutant: the mapping is not required to hold an 'id'; a missing id reads as "".
parse_approval_default_id(data) ==
    LET approval_data == Get(data, "approval", None) IN
    IF Truthy(approval_data) /\ approval_data.t = "obj"
    THEN [cls |-> "ToolApproval",
          id |-> Get(approval_data.f, "id", S("")),
          approved |-> Get(approval_data.f, "approved", None),
          reason |-> Get(approval_data.f, "reason", None)]
    ELSE None

parse_approval(data) ==
    LET approval_data == Get(data, "approval", None) IN
    IF Truthy(approval_data) /\ approval_data.t = "obj" /\ "id" \in DOMAIN approval_data.f
    THEN [cls |-> "ToolApproval",
          id |-> approval_data.f["id"],
          approved |-> Get(approval_data.f, "approved", None),
          reason |-> Get(approval_data.f, "reason", None)]
    ELSE None

parse_text_event(data) ==
    [cls |-> "TextEvent", type |-> S("text"),
     text |-> Get(data, "text", S("")),
     state |-> Get(data, "state", None)]

\* Mutant: the production record is read through the local dialect's field.
parse_text_delta_event_text_field(data) ==
    [cls |-> "TextEvent", type |-> S("text"),
     text |-> Get(data, "text", S("")),
     state |-> Get(data, "state", None)]

parse_text_delta_event(data) ==
    [cls |-> "TextEvent", type |-> S("text"),
     text |-> Get(data, "delta", S("")),
     state |-> Get(data, "state", None)]

parse_step_start_event(data) ==
    [cls |-> "StepStartEvent", type |-> S("step-start")]

parse_tool_call_event(data) ==
    [cls |-> "ToolCallEvent", type |-> S("tool-call"),
     toolCallId |-> Get(data, "toolCallId", S("")),
     toolName |-> Get(data, "toolName", None),
     state |-> Get(data, "state", S("")),
     input |-> Get(data, "input", None),
     output |-> Get(data, "output", None),
     approval |-> parse_approval(data)]

parse_tool_input_start_event(data) ==
    [cls |-> "ToolCallEvent", type |-> S("tool-call"),
     toolCallId |-> Get(data, "toolCallId", S("")),
     toolName |-> Get(data, "toolName", None),
     state |-> S("started"),
     input |-> None,
     output |-> None,
     approval |-> None]

\* Mutant: the phase is read from the record's 'state' field, as for 'tool-call'.
parse_tool_input_available_event_wire_state(data) ==
    [cls |-> "ToolCallEvent", type |-> S("tool-call"),
     toolCallId |-> Get(data, "toolCallId", S("")),
     toolName |-> Get(data, "toolName", None),
     state |-> Get(data, "state", S("")),
     input |-> Get(data, "input", None),
     output |-> None,
     approval |-> parse_approval(data)]

parse_tool_input_available_event(data) ==
    [cls |-> "ToolCallEvent", type |-> S("tool-call"),
     toolCallId |-> Get(data, "toolCallId", S("")),
     toolName |-> Get(data, "toolName", None),
     state |-> S("input-available"),
     input |-> Get(data, "input", None),
     output |-> None,
     approval |-> parse_approval(data)]

\* Variant: a 'state' field of the record, when there is one, is the phase.
parse_tool_output_available_event_wire_state(data) ==
    [cls |-> "ToolCallEvent", type |-> S("tool-call"),
     toolCallId |-> Get(data, "toolCallId", S("")),
     toolName |-> Get(data, "toolName", None),
     state |-> Get(data, "state", S("output-available")),
     input |-> None,
     output |-> Get(data, "output", None),
     approval |-> None]

parse_tool_output_available_event(data) ==
    [cls |-> "ToolCallEvent", type |-> S("tool-call"),
     toolCallId |-> Get(data, "toolCallId", S("")),
     toolName |-> Get(data, "toolName", None),
     state |-> S("output-available"),
     input |-> None,
     output |-> Get(data, "output", None),
     approval |-> None]

\* Variant: the event keeps the type string of the wire record.
parse_finish_event_wire_type(data) ==
    LET usage == Get(data, "usage", None) IN
    [cls |-> "FinishEvent", type |-> Get(data, "type", S("finish")),
     finishReason |-> Get(data, "finishReason", S("stop")),
     usage |-> IF Truthy(usage)
               THEN [cls |-> "UsageInfo",
                     promptTokens |-> usage.f["promptTokens"],
                     completionTokens |-> usage.f["completionTokens"]]
               ELSE None]

\* FinishEvent.usage is None or the UsageInfo built from the embedded mapping
\* (a mapping with both counters in every record of the model).
parse_finish_event(data) ==
    LET usage == Get(data, "usage", None) IN
    [cls |-> "FinishEvent", type |-> S("finish"),
     finishReason |-> Get(data, "finishReason", S("stop")),
     usage |-> IF Truthy(usage)
               THEN [cls |-> "UsageInfo",
                     promptTokens |-> usage.f["promptTokens"],
                     completionTokens |-> usage.f["completionTokens"]]
               ELSE None]

parse_error_event(data) ==
    [cls |-> "ErrorEvent", type |-> S("error"),
     message |-> Get(data, "message", S("Unknown error")),
     code |-> Get(data, "code", None)]

parse_tool_output_error_event(data) ==
    [cls |-> "ToolOutputErrorEvent", type |-> S("tool-output-error"),
     toolCallId |-> Get(data, "toolCallId", S("")),
     errorText |-> Get(data, "errorText", S("Unknown error"))]

parse_tool_approval_request_event(data) ==
    [cls |-> "ToolApprovalRequestEvent", type |-> S("tool-approval-request"),
     approvalId |-> Get(data, "approvalId", S("")),
     toolCallId |-> Get(data, "toolCallId", S(""))]

\* usage_data.get raises AttributeError when 'data' holds anything but a mapping.
parse_usage_event(data) ==
    LET usage_data == Get(data, "data", Obj(EmptyDict)) IN
    IF usage_data.t # "obj" THEN Exception("AttributeError")
    ELSE
    [cls |-> "UsageEvent", type |-> S("data-usage"),
     usage |-> [cls |-> "UsageInfo",
                promptTokens |-> Get(usage_data.f, "promptTokens", N(0)),
                completionTokens |-> Get(usage_data.f, "completionTokens", N(0))]]

---------------------------------------------------------------------------
(* Event parser dispatch table *)

EVENT_PARSERS ==
    {"text", "text-delta", "step-start", "start-step", "tool-call",
     "tool-input-start", "tool-input-available", "tool-output-available",
     "tool-output-error", "tool-approval-request", "data-usage",
     "finish", "finish-step", "error"}

Dispatch(key, data) ==
    CASE key = "text"                  -> parse_text_event(data)
      [] key = "text-delta"            -> parse_text_delta_event(data)
      [] key = "step-start"            -> parse_step_start_event(data)
      [] key = "start-step"            -> parse_step_start_event(data)
      [] key = "tool-call"             -> parse_tool_call_event(data)
      [] key = "tool-input-start"      -> parse_tool_input_start_event(data)
      [] key = "tool-input-available"  -> parse_tool_input_available_event(data)
      [] key = "tool-output-available" -> parse_tool_output_available_event(data)
      [] key = "tool-output-error"     -> parse_tool_output_error_event(data)
      [] key = "tool-approval-request" -> parse_tool_approval_request_event(data)
      [] key = "data-usage"            -> parse_usage_event(data)
      [] key = "finish"                -> parse_finish_event(data)
      [] key = "finish-step"           -> parse_finish_event(data)
      [] key = "error"                 -> parse_error_event(data)

parse_sse_event(data) ==
    LET event_type == Get(data, "type", S("")) IN
    IF event_type.t = "obj" THEN Exception("TypeError")
    ELSE IF event_type.t = "str" /\ event_type.s \in EVENT_PARSERS
    THEN Dispatch(event_type.s, data)
    ELSE [cls |-> "UnknownEvent", type |-> event_type, data |-> data]

---------------------------------------------------------------------------
(* SSE line reader: one iteration of the loop of parse_sse_stream *)

(* A line is [pre |-> p, body |-> b]: its text is p followed by the text b
   stands for.  pre is the longest SSE field prefix the line starts with
   ("" for none, and for the empty line); body says what follows it:
     [k |-> "none"]              nothing (with pre = "": the empty line)
     [k |-> "blank"]             only whitespace
     [k |-> "done"]              the marker [DONE]
     [k |-> "json", v |-> val]   JSON text that decodes to val
     [k |-> "malformed", txt |-> s, msg |-> m]
                                 the text s, which json.loads rejects with
                                 a JSONDecodeError e, str(e) = m
     [k |-> "other"]             any other text *)
Line(p, b) == [pre |-> p, body |-> b]
DataLine(rec) == Line("data: ", [k |-> "json", v |-> Obj(rec)])

\* A payload json.loads rejects, with str() of the JSONDecodeError it raises.
Malformed(txt, msg) == Line("data: ", [k |-> "malformed", txt |-> txt, msg |-> msg])

\* line.startswith(p)
StartsWith(line, p) == line.pre = p

\* json.loads(json_str): the decoded value, or the JSONDecodeError e with
\* e.doc the text it was given and str(e) = e.str.
json_loads(body) ==
    IF body.k = "json" THEN [ok |-> TRUE, v |-> body.v]
    ELSE [ok |-> FALSE,
          e |-> [cls |-> "JSONDecodeError", doc |-> body.txt, str |-> body.msg]]

\* KaiStreamError(message=..., cause=...) raised "from e": message is the
\* sequence of the parts of its f-string, chained is e (__cause__).
KaiStreamError(message, cause, e) ==
    [cls |-> "KaiStreamError", message |-> message, cause |-> cause, chained |-> e]

Skip == [out |-> "skip"]
Yield(ev) == [out |-> "event", ev |-> ev]
Raise(e) == [out |-> "raise", err |-> e]

\* Variant: an application-level error record fails the stream.
yield_event_raise_on_error(value) ==
    IF value.t # "obj" THEN Raise([cls |-> "AttributeError"])
    ELSE LET result == parse_sse_event(value.f) IN
         IF Raised(result) THEN Raise([cls |-> result.exc])
         ELSE IF result.cls \in {"ErrorEvent", "ToolOutputErrorEvent"}
         THEN Raise(KaiStreamError(<<"Failed to parse SSE event: ", "error">>, "error", None))
         ELSE Yield(result)

\* "yield parse_sse_event(data)": data.get raises AttributeError when the
\* decoded value is not a mapping; an exception of parse_sse_event is no
\* JSONDecodeError, so it is not caught and leaves the generator as it is.
yield_event(value) ==
    IF value.t # "obj" THEN Raise([cls |-> "AttributeError"])
    ELSE LET result == parse_sse_event(value.f) IN
         IF Raised(result) THEN Raise([cls |-> result.exc]) ELSE Yield(result)

\* Variant: the error names the text that failed to decode.
parse_error_with_doc(e) ==
    KaiStreamError(<<"Failed to parse SSE event: ", e.doc>>, e.str, e)

\* "except json.JSONDecodeError as e: raise KaiStreamError(...) from e"
parse_error(e) ==
    KaiStreamError(<<"Failed to parse SSE event: ", e.str>>, e.str, e)

\* Variant: a payload that does not decode is dropped.
parse_data_skip_malformed(body) ==
    IF body.k \in {"none", "blank"} THEN Skip
    ELSE IF body.k = "done" THEN Skip
    ELSE LET data == json_loads(body) IN
         IF data.ok THEN yield_event(data.v) ELSE Skip

\* Variant: the [DONE] marker is handed to json.loads like any payload.
parse_data_no_done(body) ==
    IF body.k \in {"none", "blank"} THEN Skip
    ELSE LET data == json_loads(IF body.k = "done"
                                THEN [k |-> "malformed", txt |-> "[DONE]",
                                      msg |-> "Expecting value: line 1 column 2 (char 1)"]
                                ELSE body) IN
         IF data.ok THEN yield_event(data.v) ELSE Raise(parse_error(data.e))

\* The body of "if line.startswith('data: ')": body is line[6:].
parse_data(body) ==
    IF body.k \in {"none", "blank"} THEN Skip
    ELSE IF body.k = "done" THEN Skip
    ELSE LET data == json_loads(body) IN
         IF data.ok THEN yield_event(data.v) ELSE Raise(parse_error(data.e))

\* Variant: the space after "data:" is optional.
parse_line_optional_space(line) ==
    IF (line.pre = "" /\ line.body.k = "none") \/ StartsWith(line, ":")
    THEN Skip
    ELSE IF StartsWith(line, "data: ") \/ StartsWith(line, "data:")
    THEN parse_data(line.body)
    ELSE Skip

\* Variant: a line that is no SSE field is a protocol violation.
parse_line_strict(line) ==
    IF (line.pre = "" /\ line.body.k = "none") \/ StartsWith(line, ":")
    THEN Skip
    ELSE IF StartsWith(line, "data: ")
    THEN parse_data(line.body)
    ELSE IF StartsWith(line, "event: ") \/ StartsWith(line, "id: ") \/ StartsWith(line, "retry: ")
    THEN Skip
    ELSE Raise(KaiStreamError(<<"Unexpected line in SSE stream">>, "unexpected line", None))

\* One iteration of the loop over response.aiter_lines().
parse_line(line) ==
    IF (line.pre = "" /\ line.body.k = "none") \/ StartsWith(line, ":")
    THEN Skip
    ELSE IF StartsWith(line, "data: ")
    THEN parse_data(line.body)
    ELSE Skip

\* Variant: the transport's exception is not wrapped.
transport_error_unwrapped(e) ==
    [cls |-> e.cls, message |-> <<e.str>>, cause |-> e.str, chained |-> e]

\* "except httpx.RemoteProtocolError as e: raise KaiStreamError(...) from e"
transport_error(e) ==
    KaiStreamError(<<"Connection error during streaming">>, e.str, e)

---------------------------------------------------------------------------
(* SSEStreamParser *)

\* __init__
NewParser ==
    [accumulated_text |-> <<>>,
     tool_calls |-> [k \in {} |-> None],
     finished |-> FALSE,
     finish_reason |-> None,
     prompt_tokens |-> 0,
     completion_tokens |-> 0]

RECURSIVE Join(_)
\* "".join(fragments)
Join(fragments) ==
    IF fragments = <<>> THEN ""
    ELSE Head(fragments).s \o Join(Tail(fragments))

\* the text property
text(p) == Join(p.accumulated_text)

\* Variant: the property hands out the accumulator's own dict.
tool_calls_no_copy(p) == [own |-> FALSE, d |-> p.tool_calls]

\* the tool_calls property: self._tool_calls.copy(), a dict of the caller's
\* own (own = TRUE) holding the entries the map has at the time of the call.
tool_calls(p) == [own |-> TRUE, d |-> p.tool_calls]

\* What a dict handed to a caller holds once the accumulator's dict holds d:
\* a dict of the caller's own is what it was; the accumulator's dict
\* itself, reached through the caller's reference, holds d.
Aliased(snap, d) ==
    IF snap = None \/ snap.own THEN snap ELSE [snap EXCEPT !.d = d]

\* Variant: the dict is rebuilt around the one key.
SetItem_only(d, key, value) == [k \in {key} |-> value]

\* d[key] = value on a dict
SetItem(d, key, value) ==
    [k \in DOMAIN d \cup {key} |-> IF k = key THEN value ELSE d[k]]

\* Variant: the newest fragment is put in front of the buffer.
on_text_prepend(p, event) ==
    [p EXCEPT !.accumulated_text = <<event.text>> \o @]

\* The four branches of process_event, one per isinstance test.
on_text(p, event) ==
    [p EXCEPT !.accumulated_text = Append(@, event.text)]

\* Mutant: an id already recorded keeps its first event.
on_tool_call_first_wins(p, event) ==
    IF event.toolCallId \in DOMAIN p.tool_calls THEN p
    ELSE [p EXCEPT !.tool_calls = SetItem(@, event.toolCallId, event)]

on_tool_call(p, event) ==
    [p EXCEPT !.tool_calls = SetItem(@, event.toolCallId, event)]

\* Variant: a usage event sets the counters instead of adding to them.
on_usage_assign(p, event) ==
    [p EXCEPT !.prompt_tokens = event.usage.promptTokens.n,
              !.completion_tokens = event.usage.completionTokens.n]

on_usage(p, event) ==
    [p EXCEPT !.prompt_tokens = @ + event.usage.promptTokens.n,
              !.completion_tokens = @ + event.usage.completionTokens.n]

\* Variant: a Finish event also forgets the tool calls of the stream.
on_finish_clears_calls(p, event) ==
    [p EXCEPT !.finished = TRUE, !.finish_reason = event.finishReason,
              !.tool_calls = [k \in {} |-> None],
              !.prompt_tokens = @ + (IF event.usage # None
                                     THEN event.usage.promptTokens.n ELSE 0),
              !.completion_tokens = @ + (IF event.usage # None
                                         THEN event.usage.completionTokens.n ELSE 0)]

\* Mutant: the usage embedded in a Finish event is not added.
on_finish_no_usage(p, event) ==
    [p EXCEPT !.finished = TRUE, !.finish_reason = event.finishReason]

\* Variant: the reason of the first Finish event is kept.
on_finish_keeps_first_reason(p, event) ==
    [p EXCEPT !.finished = TRUE,
              !.finish_reason = IF p.finished THEN @ ELSE event.finishReason,
              !.prompt_tokens = @ + (IF event.usage # None
                                     THEN event.usage.promptTokens.n ELSE 0),
              !.completion_tokens = @ + (IF event.usage # None
                                         THEN event.usage.completionTokens.n ELSE 0)]

on_finish(p, event) ==
    IF event.usage # None
    THEN [p EXCEPT !.finished = TRUE,
                   !.finish_reason = event.finishReason,
                   !.prompt_tokens = @ + event.usage.promptTokens.n,
                   !.completion_tokens = @ + event.usage.completionTokens.n]
    ELSE [p EXCEPT !.finished = TRUE,
                   !.finish_reason = event.finishReason]

\* Mutant: a finished accumulator ignores every further event.
process_event_frozen(p, event) ==
    IF p.finished THEN p
    ELSE IF event.cls = "TextEvent" THEN on_text(p, event)
    ELSE IF event.cls = "ToolCallEvent" THEN on_tool_call(p, event)
    ELSE IF event.cls = "UsageEvent" THEN on_usage(p, event)
    ELSE IF event.cls = "FinishEvent" THEN on_finish(p, event)
    ELSE p

\* Mutant: a Finish event sets finished but does not record its reason.
process_event_no_reason(p, event) ==
    IF event.cls = "TextEvent" THEN on_text(p, event)
    ELSE IF event.cls = "ToolCallEvent" THEN on_tool_call(p, event)
    ELSE IF event.cls = "UsageEvent" THEN on_usage(p, event)
    ELSE IF event.cls = "FinishEvent" THEN [p EXCEPT !.finished = TRUE]
    ELSE p

\* Variant: an application-level error event ends the accumulation.
process_event_error_finishes(p, event) ==
    IF event.cls = "TextEvent" THEN on_text(p, event)
    ELSE IF event.cls = "ToolCallEvent" THEN on_tool_call(p, event)
    ELSE IF event.cls = "UsageEvent" THEN on_usage(p, event)
    ELSE IF event.cls = "FinishEvent" THEN on_finish(p, event)
    ELSE IF event.cls \in {"ErrorEvent", "ToolOutputErrorEvent"}
    THEN [p EXCEPT !.finished = TRUE, !.finish_reason = S("error")]
    ELSE p

process_event(p, event) ==
    IF event.cls = "TextEvent" THEN on_text(p, event)
    ELSE IF event.cls = "ToolCallEvent" THEN on_tool_call(p, event)
    ELSE IF event.cls = "UsageEvent" THEN on_usage(p, event)
    ELSE IF event.cls = "FinishEvent" THEN on_finish(p, event)
    ELSE p

\* Variant: the token totals survive the reset.
reset_keeps_tokens(p) ==
    [p EXCEPT !.accumulated_text = <<>>,
              !.tool_calls = [k \in {} |-> None],
              !.finished = FALSE,
              !.finish_reason = None]

\* reset: each field is cleared or assigned its initial value.
reset(p) ==
    [p EXCEPT !.accumulated_text = <<>>,
              !.tool_calls = [k \in {} |-> None],
              !.finished = FALSE,
              !.finish_reason = None,
              !.prompt_tokens = 0,
              !.completion_tokens = 0]

\* Variant: the event is handed to the caller before it is applied.
consume_event_yield_first(p, event) ==
    [at_yield |-> p, after |-> process_event(p, event)]

\* The loop body of consume_stream: process_event(event), then "yield event".
\* at_yield is the accumulator at the yield, where the caller receives the
\* event; after is the accumulator when the loop asks for the next event.
consume_event(p, event) ==
    LET applied == process_event(p, event) IN
    [at_yield |-> applied, after |-> applied]

\* A second instance, SSEStreamParser(), before it consumed anything.
NewTwin == [parser |-> NewParser, fed |-> <<>>]

---------------------------------------------------------------------------
(* examples/test_tool_confirmation.py: the tracker of stream_and_collect *)

\* text_parts = [], all_events = [], tool_states = {}
\* tool_states is a dict: a sequence of [key, value] in insertion order.
NewCollect == [text_parts |-> <<>>, all_events |-> <<>>, tool_states |-> <<>>]

HasKey(d, key) == \E i \in 1..Len(d) : d[i].key = key

\* d[key] = value on an insertion-ordered dict
OrderedSetItem(d, key, value) ==
    IF HasKey(d, key)
    THEN [i \in 1..Len(d) |-> IF d[i].key = key THEN [key |-> key, value |-> value] ELSE d[i]]
    ELSE Append(d, [key |-> key, value |-> value])

\* Mutant: the first event of an id is kept (setdefault instead of assignment).
collect_event_first_wins(c, event) ==
    LET c1 == [c EXCEPT !.all_events = Append(@, event)] IN
    IF event.type = S("text")
    THEN [c1 EXCEPT !.text_parts = Append(@, event.text)]
    ELSE IF event.type = S("tool-call") /\ event.cls = "ToolCallEvent"
              /\ ~HasKey(c.tool_states, event.toolCallId)
    THEN [c1 EXCEPT !.tool_states = OrderedSetItem(@, event.toolCallId, event)]
    ELSE c1

\* Variant: an approval request attaches its ticket to the tracked call.
collect_event_request_attaches(c, event) ==
    LET c1 == [c EXCEPT !.all_events = Append(@, event)] IN
    IF event.type = S("text")
    THEN [c1 EXCEPT !.text_parts = Append(@, event.text)]
    ELSE IF event.type = S("tool-call") /\ event.cls = "ToolCallEvent"
    THEN [c1 EXCEPT !.tool_states = OrderedSetItem(@, event.toolCallId, event)]
    ELSE IF event.cls = "ToolApprovalRequestEvent" /\ HasKey(c.tool_states, event.toolCallId)
    THEN LET old == (CHOOSE e \in { c.tool_states[i] : i \in 1..Len(c.tool_states) } :
                        e.key = event.toolCallId).value
         IN [c1 EXCEPT !.tool_states =
                OrderedSetItem(@, event.toolCallId,
                               [old EXCEPT !.approval =
                                    [cls |-> "ToolApproval", id |-> event.approvalId,
                                     approved |-> None, reason |-> None]])]
    ELSE c1

\* the body of the "async for" loop of stream_and_collect
collect_event(c, event) ==
    LET c1 == [c EXCEPT !.all_events = Append(@, event)] IN
    IF event.type = S("text")
    THEN [c1 EXCEPT !.text_parts = Append(@, event.text)]
    ELSE IF event.type = S("tool-call") /\ event.cls = "ToolCallEvent"
    THEN [c1 EXCEPT !.tool_states = OrderedSetItem(@, event.toolCallId, event)]
    ELSE c1

IsPendingState(last_event) == last_event.state = S("input-available")

\* pending_tools, in the order of tool_states.items()
pending_tools(c) ==
    LET vals == [i \in 1..Len(c.tool_states) |-> c.tool_states[i].value]
    IN SelectSeq(vals, IsPendingState)

---------------------------------------------------------------------------
(* examples/test_tool_confirmation.py: the approval / denial driver *)

\* Mutant: any approval sub-record selects the ticket path, whatever its id.
has_v6_approval_any_id(pending) ==
    pending.approval # None

has_v6_approval(pending) ==
    /\ pending.approval # None
    /\ "id" \in DOMAIN pending.approval
    /\ Truthy(pending.approval.id)

\* Variant: the tool name of the pending record is passed on as it is.
continuation_raw_name(pending, decision) ==
    IF has_v6_approval(pending)
    THEN [fn |-> IF decision = "approve" THEN "approve_tool" ELSE "reject_tool",
          approval_id |-> pending.approval.id,
          call |-> pending]
    ELSE [fn |-> IF decision = "approve" THEN "confirm_tool" ELSE "deny_tool",
          tool_call_id |-> pending.toolCallId,
          tool_name |-> pending.toolName,
          call |-> pending]

\* the continuation call issued for `pending` under `decision`
\* ("approve" | "deny"); `call` remembers the record it was issued for.
continuation(pending, decision) ==
    IF has_v6_approval(pending)
    THEN [fn |-> IF decision = "approve" THEN "approve_tool" ELSE "reject_tool",
          approval_id |-> pending.approval.id,
          call |-> pending]
    ELSE [fn |-> IF decision = "approve" THEN "confirm_tool" ELSE "deny_tool",
          tool_call_id |-> pending.toolCallId,
          tool_name |-> Or(pending.toolName, S("unknown")),
          call |-> pending]

---------------------------------------------------------------------------
(* The wire records the transport may deliver *)

Usage(p, c) == Obj([promptTokens |-> N(p), completionTokens |-> N(c)])

RecTextHello == [type |-> S("text"), text |-> S("Hello ")]
RecTextWorld == [type |-> S("text"), text |-> S("world!")]
RecDeltaHello == [type |-> S("text-delta"), delta |-> S("Hello ")]
RecUsageA == [type |-> S("data-usage"), data |-> Usage(10, 5)]
RecUsageB == [type |-> S("data-usage"), data |-> Usage(3, 2)]
RecFinishStop == [type |-> S("finish"), finishReason |-> S("stop")]
RecFinishStepUsage ==
    [type |-> S("finish-step"), finishReason |-> S("tool-calls"), usage |-> Usage(1, 1)]
RecStepStart == [type |-> S("step-start")]
RecError == [type |-> S("error"), message |-> S("Something went wrong")]

RecInputStart(id) ==
    [type |-> S("tool-input-start"), toolCallId |-> S(id), toolName |-> S("create_bucket")]
RecInputAvailable(id) ==
    [type |-> S("tool-input-available"), toolCallId |-> S(id),
     toolName |-> S("create_bucket"), input |-> Obj(EmptyDict)]
RecInputAvailableTicket(id, ticket) ==
    [type |-> S("tool-input-available"), toolCallId |-> S(id),
     toolName |-> S("create_bucket"), input |-> Obj(EmptyDict),
     approval |-> Obj([id |-> S(ticket)])]
RecInputAvailableNoName(id) ==
    [type |-> S("tool-input-available"), toolCallId |-> S(id), input |-> Obj(EmptyDict)]
RecOutputAvailable(id) ==
    [type |-> S("tool-output-available"), toolCallId |-> S(id), output |-> S("ok")]
RecOutputError(id) ==
    [type |-> S("tool-output-error"), toolCallId |-> S(id), errorText |-> S("boom")]

\* Lines of a text / usage / finish stream with one tool call in it.
Lines ==
    { DataLine(r) : r \in {RecTextHello, RecTextWorld, RecDeltaHello,
                           RecUsageA, RecUsageB, RecFinishStop, RecFinishStepUsage,
                           RecInputAvailable("t1")} }

\* Lines of a stream of tool calls, of both protocol generations.
ToolLines ==
    { DataLine(r) : r \in {RecInputStart("t1"), RecInputAvailable("t1"),
                           RecInputAvailableTicket("t1", "a1"),
                           RecInputAvailableTicket("t2", ""),
                           RecInputAvailableNoName("t2"),
                           RecOutputAvailable("t1"), RecOutputAvailable("t2"),
                           RecOutputError("t1")} }

---------------------------------------------------------------------------
(* The state machine *)

Init ==
    /\ status = "streaming"
    /\ parser = NewParser
    /\ collect = NewCollect
    /\ requests = <<>>
    /\ fed = <<>>
    /\ sent = <<>>
    /\ norm_in = EmptyDict
    /\ norm_out = None
    /\ error = None
    /\ twin = NewTwin
    /\ snapshot = None
    /\ observed = None

\* One iteration of "async for line in response.aiter_lines()": the line is
\* read, and the event it yields (if any) is folded by consume_stream's
\* process_event and by the loop body of stream_and_collect.
ReadLine(line) ==
    /\ status = "streaming"
    /\ Len(sent) < MaxLines
    /\ Len(fed) < MaxLines
    /\ sent' = Append(sent, line)
    /\ fed' = Append(fed, line)
    /\ LET r == parse_line(line)
           c == consume_event(parser, r.ev)
       IN
       /\ parser' = IF r.out = "event" THEN c.after ELSE parser
       /\ observed' = IF r.out = "event" THEN c.at_yield ELSE observed
       /\ collect' = IF r.out = "event" THEN collect_event(collect, r.ev) ELSE collect
       /\ status' = IF r.out = "raise" THEN "failed" ELSE status
       /\ error' = IF r.out = "raise" THEN r.err ELSE error
    /\ snapshot' = Aliased(snapshot, parser'.tool_calls)
    /\ UNCHANGED <<requests, norm_in, norm_out, twin>>

\* Variant: a transport closed between records is reported as a failure.
EndStream_error ==
    /\ status = "streaming"
    /\ status' = "failed"
    /\ error' = KaiStreamError(<<"Connection error during streaming">>, "stream closed",
                               [cls |-> "StreamClosed", str |-> "stream closed"])
    /\ UNCHANGED <<parser, collect, requests, fed, sent, norm_in, norm_out, twin, snapshot, observed>>

\* The line source is exhausted (or the transport closed between records):
\* the generators return and stream_and_collect computes pending_tools.
EndStream ==
    /\ status = "streaming"
    /\ status' = "ended"
    /\ UNCHANGED <<parser, collect, requests, fed, sent, norm_in, norm_out, error, twin, snapshot, observed>>

\* SSEStreamParser.reset(), called by the owner of the parser.
Reset ==
    /\ parser' = reset(parser)
    /\ fed' = <<>>
    /\ snapshot' = Aliased(snapshot, parser'.tool_calls)
    /\ UNCHANGED <<status, collect, requests, sent, norm_in, norm_out, error, twin, observed>>

\* Variant: the driver resolves a call as soon as it is seen pending, while
\* the stream that announced it is still being read.
Resolve_eager(decision) ==
    /\ status = "streaming"
    /\ pending_tools(collect) # <<>>
    /\ LET pt == pending_tools(collect)
           pending == pt[Len(pt)]
       IN requests' = Append(requests, continuation(pending, decision))
    /\ status' = "resolved"
    /\ UNCHANGED <<parser, collect, fed, sent, norm_in, norm_out, error, twin, snapshot, observed>>

\* "if pending_tools: pending = pending_tools[-1] ..." of main: the last
\* pending call of the stream that ended is approved or denied.
Resolve(decision) ==
    /\ status = "ended"
    /\ pending_tools(collect) # <<>>
    /\ LET pt == pending_tools(collect)
           pending == pt[Len(pt)]
       IN requests' = Append(requests, continuation(pending, decision))
    /\ status' = "resolved"
    /\ UNCHANGED <<parser, collect, fed, sent, norm_in, norm_out, error, twin, snapshot, observed>>

\* The next message is sent: stream_and_collect starts over with fresh
\* locals; the parser is the same instance and is not reset.
NewStream ==
    /\ status \in {"ended", "resolved", "failed"}
    /\ Len(fed) < MaxLines
    /\ status' = "streaming"
    /\ collect' = NewCollect
    /\ sent' = <<>>
    /\ error' = None
    /\ UNCHANGED <<parser, requests, fed, norm_in, norm_out, twin, snapshot, observed>>

\* One stream folded by an accumulator that its owner may reset.
Next ==
    \/ \E line \in Lines : ReadLine(line)
    \/ EndStream
    \/ Reset

Spec == Init /\ [][Next]_vars

\* Streams of tool calls, each followed by the driver's resolution.
NextTool ==
    \/ \E line \in ToolLines : ReadLine(line)
    \/ EndStream
    \/ \E decision \in {"approve", "deny"} : Resolve(decision)
    \/ NewStream

SpecTool == Init /\ [][NextTool]_vars

---------------------------------------------------------------------------
(* Approve / resume cycles: the streams of one conversation, each paused for
   an approval, folded by one accumulator that is never reset *)

ResumeLines ==
    { DataLine(r) : r \in {RecInputAvailable("t1"), RecOutputAvailable("t1"),
                           RecInputAvailableNoName("t2"), RecTextHello,
                           RecFinishStepUsage, RecFinishStop} }

NextResume ==
    \/ \E line \in ResumeLines : ReadLine(line)
    \/ EndStream
    \/ \E decision \in {"approve", "deny"} : Resolve(decision)
    \/ NewStream

SpecResume == Init /\ [][NextResume]_vars

---------------------------------------------------------------------------
(* Two streams consumed concurrently, each by an accumulator of its own: the
   two consume_stream loops interleave at their awaits, line by line *)

PairLines ==
    { DataLine(r) : r \in {RecTextHello, RecUsageA, RecInputAvailable("t1"),
                           RecOutputAvailable("t1")} }

\* Variant: the tool-call map is one dict shared by all instances.
FeedTwin_shared(line) ==
    /\ Len(twin.fed) < MaxLines
    /\ LET r == parse_line(line)
           p == IF r.out = "event" THEN process_event(twin.parser, r.ev) ELSE twin.parser
       IN /\ twin' = [parser |-> p, fed |-> Append(twin.fed, line)]
          /\ parser' = [parser EXCEPT !.tool_calls = p.tool_calls]
    /\ UNCHANGED <<status, collect, requests, fed, sent, norm_in, norm_out, error, snapshot, observed>>

\* One iteration of the second instance's consume_stream.
FeedTwin(line) ==
    /\ Len(twin.fed) < MaxLines
    /\ LET r == parse_line(line)
           p == IF r.out = "event" THEN process_event(twin.parser, r.ev) ELSE twin.parser
       IN twin' = [parser |-> p, fed |-> Append(twin.fed, line)]
    /\ UNCHANGED <<status, parser, collect, requests, fed, sent, norm_in, norm_out, error, snapshot, observed>>

NextPair ==
    \/ \E line \in PairLines : ReadLine(line)
    \/ \E line \in PairLines : FeedTwin(line)

SpecPair == Init /\ [][NextPair]_vars

---------------------------------------------------------------------------
(* A caller that holds the dict of the tool_calls property and writes to it,
   while the accumulator goes on consuming and is reset *)

SnapLines ==
    { DataLine(r) : r \in {RecInputAvailable("t1"), RecOutputAvailable("t1"),
                           RecInputAvailableNoName("t2")} }

\* An event the caller makes up and stores in its dict.
CallerEvent == parse_tool_output_available_event(RecOutputAvailable("x1"))

\* The keys the caller writes under: one the map may hold, one it never holds.
CallerKeys == {S("t1"), S("x1")}

\* d[key] = value ("set": add or replace) and del d[key] ("del") on a dict.
DictWrite(d, op, key) ==
    IF op = "set" THEN SetItem(d, key, CallerEvent)
    ELSE [k \in (DOMAIN d) \ {key} |-> d[k]]

\* snapshot = parser.tool_calls
TakeSnapshot ==
    /\ snapshot' = tool_calls(parser)
    /\ UNCHANGED <<status, parser, collect, requests, fed, sent, norm_in, norm_out, error, twin,
                   observed>>

\* The caller adds, replaces or deletes an entry of the dict it holds.  The
\* write lands in the object the caller's reference points to.
WriteSnapshot(op, key) ==
    /\ snapshot # None
    /\ op = "del" => key \in DOMAIN snapshot.d
    /\ LET d == DictWrite(snapshot.d, op, key) IN
       /\ snapshot' = [snapshot EXCEPT !.d = d]
       /\ parser' = IF snapshot.own THEN parser ELSE [parser EXCEPT !.tool_calls = d]
    /\ UNCHANGED <<status, collect, requests, fed, sent, norm_in, norm_out, error, twin,
                   observed>>

NextSnap ==
    \/ \E line \in SnapLines : ReadLine(line)
    \/ Reset
    \/ TakeSnapshot
    \/ \E op \in {"set", "del"}, key \in CallerKeys : WriteSnapshot(op, key)

SpecSnap == Init /\ [][NextSnap]_vars

---------------------------------------------------------------------------
(* A stream in which the records the accumulator folds are mixed with those
   it has no branch for *)

RecApprovalRequest(ticket, id) ==
    [type |-> S("tool-approval-request"), approvalId |-> S(ticket), toolCallId |-> S(id)]
RecStart == [type |-> S("start"), messageId |-> S("m1")]

FrameLines ==
    { DataLine(r) : r \in {RecStepStart, RecError, RecOutputError("t1"),
                           RecApprovalRequest("a1", "t1"), RecStart,
                           RecTextHello, RecInputAvailable("t1"), RecFinishStepUsage} }

NextFrame ==
    \/ \E line \in FrameLines : ReadLine(line)
    \/ EndStream

SpecFrame == Init /\ [][NextFrame]_vars

---------------------------------------------------------------------------
(* Streams in which an approval ticket is announced by a tool-approval-request
   record, by the approval field of the tool record, or not at all *)

TicketLines ==
    { DataLine(r) : r \in {RecInputAvailable("t1"), RecInputAvailableTicket("t1", "a1"),
                           RecApprovalRequest("a1", "t1"), RecOutputAvailable("t1")} }

NextTicket ==
    \/ \E line \in TicketLines : ReadLine(line)
    \/ EndStream
    \/ \E decision \in {"approve", "deny"} : Resolve(decision)
    \/ NewStream

SpecTicket == Init /\ [][NextTicket]_vars

---------------------------------------------------------------------------
(* Data lines whose payload is JSON text of every kind: objects, and the
   values that are no object *)

\* The values json.loads returns for the payloads 42, "hi", [], [1], true, null.
ScalarValues == {N(42), S("hi"), Arr(<<>>), Arr(<<N(1)>>), B(TRUE), None}

JsonLines ==
    { Line("data: ", [k |-> "json", v |-> v]) : v \in ScalarValues }
    \cup
    { DataLine(r) : r \in {RecTextHello, RecStart, RecFinishStop} }
    \cup
    { Malformed("oops", "Expecting value: line 1 column 1 (char 0)") }

NextJson ==
    \/ \E line \in JsonLines : ReadLine(line)
    \/ EndStream

SpecJson == Init /\ [][NextJson]_vars

---------------------------------------------------------------------------
(* The line reader over every kind of line the transport may deliver *)

ReaderLines ==
    { DataLine(r) : r \in {RecStepStart, RecTextHello, RecTextWorld, RecFinishStop,
                           RecError, RecOutputError("t1")} }
    \cup
    { Line("", [k |-> "none"]),               \* an empty line
      Line(":", [k |-> "other"]),             \* a comment
      Line("data: ", [k |-> "blank"]),        \* a data line of whitespace
      Line("data: ", [k |-> "done"]),         \* data: [DONE]
      Line("event: ", [k |-> "other"]),
      Line("id: ", [k |-> "other"]),
      Line("retry: ", [k |-> "other"]),
      Line("", [k |-> "other"]),              \* text with no field prefix
      Line("data:", [k |-> "json", v |-> Obj(RecTextHello)]),   \* no space after the colon
      Malformed("{not-json}",
                "Expecting property name enclosed in double quotes: line 1 column 2 (char 1)"),
      Malformed("oops", "Expecting value: line 1 column 1 (char 0)") }

\* The httpx.RemoteProtocolError the transport raises when the peer breaks
\* the connection in the middle of the body.
RemoteProtocolError ==
    [cls |-> "RemoteProtocolError",
     str |-> "peer closed connection without sending complete message body"]

\* Variant: the failure also clears what the accumulator has folded.
TransportError_rollback ==
    /\ status = "streaming"
    /\ status' = "failed"
    /\ error' = transport_error(RemoteProtocolError)
    /\ parser' = reset(parser)
    /\ UNCHANGED <<collect, requests, fed, sent, norm_in, norm_out, twin, snapshot, observed>>

\* response.aiter_lines() raises httpx.RemoteProtocolError.
TransportError ==
    /\ status = "streaming"
    /\ status' = "failed"
    /\ error' = transport_error(RemoteProtocolError)
    /\ UNCHANGED <<parser, collect, requests, fed, sent, norm_in, norm_out, twin, snapshot, observed>>

\* The caller stops iterating consume_stream (it breaks out of its loop, or
\* its task is cancelled): the generators are closed where they are suspended,
\* at a yield, between two events.
Cancel ==
    /\ status = "streaming"
    /\ status' = "cancelled"
    /\ UNCHANGED <<parser, collect, requests, fed, sent, norm_in, norm_out, error, twin, snapshot, observed>>

NextRead ==
    \/ \E line \in ReaderLines : ReadLine(line)
    \/ EndStream
    \/ TransportError
    \/ Cancel

SpecRead == Init /\ [][NextRead]_vars

\* The reader is driven on: the caller keeps iterating and the transport
\* keeps answering (with a line, its end, or an error) until the sequence is over.
SpecReadLive == SpecRead /\ WF_vars(NextRead)

---------------------------------------------------------------------------
(* The normalizer alone: one raw record, normalized once *)

ToolTypes ==
    {"tool-call", "tool-input-start", "tool-input-available", "tool-output-available"}

\* What the 'approval' field of a raw record may hold.
ApprovalValues ==
    {None, S("yes"), N(1), B(TRUE), Obj(EmptyDict),
     Obj([approved |-> B(TRUE)]),
     Obj([id |-> S("")]),
     Obj([id |-> S("a1")]),
     Obj([id |-> S("a1"), approved |-> B(FALSE), reason |-> S("no")])}

WithKey(rec, key, present, value) == IF present THEN (key :> value) @@ rec ELSE rec

\* Raw tool records: every wire type, with and without a toolCallId, with
\* and without an 'approval' field of every shape.
ToolRecords ==
    { WithKey(WithKey([type |-> S(ty), state |-> S("input-available")],
                      "toolCallId", hasId, S("t1")),
              "approval", hasApproval, a) :
        ty \in ToolTypes, hasId \in BOOLEAN, hasApproval \in BOOLEAN, a \in ApprovalValues }

\* Raw records whose 'type' is no key of EVENT_PARSERS: the production types
\* parse_sse_event names as ignorable, an empty type, no type at all (with
\* and without other fields), and a type that is a mapping instead of a string.
UnknownRecords ==
    { [type |-> S(ty)] : ty \in {"start", "text-start", "text-end", "step-end", ""} }
    \cup
    { [type |-> S("start"), messageId |-> S("m1")],
      [type |-> S("text-start"), id |-> S("0")],
      EmptyDict,
      [messageId |-> S("m1")],
      [type |-> Obj(EmptyDict)],
      [type |-> Obj(EmptyDict), messageId |-> S("m1")] }

\* What the 'usage' field of a finish record may hold: nothing, an empty
\* mapping (not truthy), or both counters.
UsageValues == {None, Obj(EmptyDict), Usage(10, 5)}

\* What the 'data' field of a data-usage record may hold.
DataValues == UsageValues \cup {Obj([promptTokens |-> N(7)]), S("n/a"), N(0)}

\* Raw records of every type of EVENT_PARSERS with their optional fields
\* absent, null, or a mapping with or without its keys.
OptionalRecords ==
    { [type |-> S(ty)] : ty \in EVENT_PARSERS }
    \cup
    { [type |-> S(ty), text |-> S("Hello "), delta |-> S("world!"), state |-> None,
       toolCallId |-> S("t1"), toolName |-> None, input |-> None, output |-> None,
       approval |-> None, code |-> None] : ty \in EVENT_PARSERS }
    \cup
    { [type |-> S("data-usage"), data |-> d] : d \in DataValues }
    \cup
    { [type |-> S(ty), usage |-> u] : ty \in {"finish", "finish-step"}, u \in UsageValues }

\* What the 'state' field of a tool record may say: a phase of the
\* lifecycle, the empty string, a string that is no phase.
StateValues == {S("started"), S("input-available"), S("output-available"), S(""), S("paused")}

\* Raw tool records of every wire type with every 'state', and with none.
StateRecords ==
    { [type |-> S(ty), toolCallId |-> S("t1"), state |-> st] : ty \in ToolTypes, st \in StateValues }
    \cup
    { [type |-> S(ty), toolCallId |-> S("t1")] : ty \in ToolTypes }

NormRecords == ToolRecords \cup UnknownRecords \cup OptionalRecords \cup StateRecords

---------------------------------------------------------------------------
(* The error classifier of the control plane.  The classifier itself is not
   part of the sources at hand; it is modelled from its specification (an
   HTTP status and a {code, message, cause?} body are mapped to one error
   kind) and from the responses and error classes of TestErrorHandling. *)

\* A control-plane response.
Response(status_code, body) == [status_code |-> status_code, body |-> body]

\* Variant: the kind is read off the resource prefix of the body's code.
error_class_by_code(response) ==
    LET code == Get(response.body, "code", S("")) IN
    CASE code = S("unauthorized:chat") -> "KaiAuthenticationError"
      [] code = S("forbidden:chat")    -> "KaiForbiddenError"
      [] code = S("not_found:chat")    -> "KaiNotFoundError"
      [] code = S("rate_limit:chat")   -> "KaiRateLimitError"
      [] code = S("bad_request:api")   -> "KaiBadRequestError"
      [] OTHER                         -> "KaiError"

\* The error kind of a response with an error status.
error_class(response) ==
    CASE response.status_code = 401 -> "KaiAuthenticationError"
      [] response.status_code = 403 -> "KaiForbiddenError"
      [] response.status_code = 404 -> "KaiNotFoundError"
      [] response.status_code = 429 -> "KaiRateLimitError"
      [] response.status_code = 400 -> "KaiBadRequestError"
      [] OTHER                      -> "KaiError"

\* The error raised for a response, None for a response without an error status.
error_of(response) ==
    IF response.status_code < 400 THEN None
    ELSE [cls |-> error_class(response),
          code |-> Get(response.body, "code", None),
          message |-> Get(response.body, "message", None),
          cause |-> Get(response.body, "cause", None)]

\* The bodies of TestErrorHandling, and one without a code.
ErrorBodies ==
    { [code |-> S("unauthorized:chat"), message |-> S("Invalid token")],
      [code |-> S("forbidden:chat"), message |-> S("Access denied")],
      [code |-> S("not_found:chat"), message |-> S("Chat not found")],
      [code |-> S("rate_limit:chat"), message |-> S("Too many requests")],
      [code |-> S("bad_request:api"), message |-> S("Invalid request")],
      [code |-> S("internal_error"), message |-> S("Server error")],
      [code |-> S("bad_request:api"), message |-> S("Validation failed"),
       cause |-> S("Missing required field: message")],
      [message |-> S("Server error")] }

StatusCodes == {200, 400, 401, 403, 404, 409, 422, 429, 500, 502, 503}

Responses == { Response(status_code, body) : status_code \in StatusCodes, body \in ErrorBodies }

InitHttp ==
    /\ status = "ended"
    /\ parser = NewParser
    /\ collect = NewCollect
    /\ requests = <<>>
    /\ fed = <<>>
    /\ sent = <<>>
    /\ norm_in \in Responses
    /\ norm_out = None
    /\ error = None
    /\ twin = NewTwin
    /\ snapshot = None
    /\ observed = None

\* The response is checked and its error, if any, is raised.
Classify ==
    /\ norm_out = None
    /\ error = None
    /\ error_of(norm_in) # None
    /\ error' = error_of(norm_in)
    /\ UNCHANGED <<status, parser, collect, requests, fed, sent, norm_in, norm_out, twin, snapshot, observed>>

NextHttp == Classify

SpecHttp == InitHttp /\ [][NextHttp]_vars

---------------------------------------------------------------------------
(* The normalizer alone, its inputs *)

InitNorm ==
    /\ status = "ended"
    /\ parser = NewParser
    /\ collect = NewCollect
    /\ requests = <<>>
    /\ fed = <<>>
    /\ sent = <<>>
    /\ norm_in \in NormRecords
    /\ norm_out = None
    /\ error = None
    /\ twin = NewTwin
    /\ snapshot = None
    /\ observed = None

\* parse_sse_event(norm_in)
Normalize ==
    /\ norm_out = None
    /\ norm_out' = parse_sse_event(norm_in)
    /\ UNCHANGED <<status, parser, collect, requests, fed, sent, norm_in, error, twin, snapshot, observed>>

NextNorm == Normalize

SpecNorm == InitNorm /\ [][NextNorm]_vars

---------------------------------------------------------------------------
(* Reading the histories: what the raw lines say, independently of the
   normalizer and of the accumulator *)

IsRecordLine(line) ==
    line.pre = "data: " /\ line.body.k = "json" /\ line.body.v.t = "obj"

WireRecord(line) == line.body.v.f

WireType(line) ==
    IF IsRecordLine(line) /\ "type" \in DOMAIN WireRecord(line)
    THEN WireRecord(line)["type"].s
    ELSE ""

\* The line is a tool-call lifecycle record of tool call `id`.
IsToolCallLine(line, id) ==
    /\ WireType(line) \in ToolTypes
    /\ Get(WireRecord(line), "toolCallId", S("")) = id

\* The phase a tool-call lifecycle record announces.
WirePhase(line) ==
    CASE WireType(line) = "tool-input-start"      -> S("started")
      [] WireType(line) = "tool-input-available"  -> S("input-available")
      [] WireType(line) = "tool-output-available" -> S("output-available")
      [] WireType(line) = "tool-call"             -> Get(WireRecord(line), "state", S(""))

Last(seq) == seq[Len(seq)]
Front(seq) == SubSeq(seq, 1, Len(seq) - 1)

RECURSIVE LastPhase(_, _)
\* The phase of the last tool-call record of `id` among `lines`, None if none.
LastPhase(lines, id) ==
    IF lines = <<>> THEN None
    ELSE IF IsToolCallLine(Last(lines), id) THEN WirePhase(Last(lines))
    ELSE LastPhase(Front(lines), id)

\* The tool-call ids on the wire (the empty string is the id of a record without one).
Ids == {S("t1"), S("t2"), S("")}

\* Ids pending in the tracker of stream_and_collect.
CollectPending(c) ==
    { pending_tools(c)[i].toolCallId : i \in 1..Len(pending_tools(c)) }

\* Ids pending in the accumulator's map: latest recorded phase is input-available.
ParserPending(p) ==
    { k \in DOMAIN p.tool_calls : p.tool_calls[k].state = S("input-available") }

\* A step that read one more line of the current stream, and that line.
ReadStep == Len(sent') = Len(sent) + 1
StepLine == Last(sent')

---------------------------------------------------------------------------
(* C1: after any sequence of events the pending tool calls are exactly the
   ids whose most recently processed ToolCall event has phase
   input-available, in the tracker of stream_and_collect (over the lines of
   the stream) and in the accumulator's map (over the lines fed since its
   reset). *)
C1_PendingIsLatestInputAvailable ==
    /\ CollectPending(collect) = { id \in Ids : LastPhase(sent, id) = S("input-available") }
    /\ ParserPending(parser) = { id \in Ids : LastPhase(fed, id) = S("input-available") }

\* started -> input-available leaves t1 pending; a later output-available removes it.
C1_Witness ==
    /\ sent = <<DataLine(RecInputStart("t1")), DataLine(RecInputAvailable("t1")),
                DataLine(RecOutputAvailable("t1"))>>
    /\ S("t1") \notin CollectPending(collect)
    /\ S("t1") \notin ParserPending(parser)

(* C2: a call that reached input-available and then received a
   tool-output-error for the same id is not reported pending. *)
C2_ErrorEndsPending ==
    \A id \in Ids :
        (\E i \in 1..Len(sent) :
            /\ i > 1
            /\ IsToolCallLine(sent[i - 1], id)
            /\ WirePhase(sent[i - 1]) = S("input-available")
            /\ WireType(sent[i]) = "tool-output-error"
            /\ Get(WireRecord(sent[i]), "toolCallId", S("")) = id
            /\ \A j \in (i + 1)..Len(sent) : ~IsToolCallLine(sent[j], id))
        => id \notin CollectPending(collect)

\* The phase tool_states records for `id`, None if it records none.
RecordedPhase(c, id) ==
    IF HasKey(c.tool_states, id)
    THEN (CHOOSE e \in { c.tool_states[i] : i \in 1..Len(c.tool_states) } : e.key = id).value.state
    ELSE None

(* C3 as stated: once an id is recorded output-available, a later
   input-available event for it does not make the call pending again. *)
C3_TerminalNotRevisited ==
    [][\A id \in Ids :
          (RecordedPhase(collect, id) = S("output-available") /\ ReadStep)
          => id \notin CollectPending(collect')]_vars

(* C3 as amended: the trackers are last-write-wins. For an id recorded
   output-available, the next line read makes it pending exactly when that
   line is a ToolCall record of the id with phase input-available; in that
   case the call is pending again. *)
C3_LastWriteWins ==
    [][\A id \in Ids :
          /\ (RecordedPhase(collect, id) = S("output-available") /\ ReadStep)
             => (id \in CollectPending(collect')
                 <=> (IsToolCallLine(StepLine, id)
                      /\ WirePhase(StepLine) = S("input-available")))
          /\ (id \in DOMAIN parser.tool_calls
              /\ parser.tool_calls[id].state = S("output-available") /\ ReadStep)
             => (id \in ParserPending(parser')
                 <=> (IsToolCallLine(StepLine, id)
                      /\ WirePhase(StepLine) = S("input-available")))]_vars

C3_Witness ==
    /\ sent = <<DataLine(RecOutputAvailable("t1")), DataLine(RecInputAvailable("t1"))>>
    /\ S("t1") \in CollectPending(collect)
    /\ S("t1") \in ParserPending(parser)

---------------------------------------------------------------------------
(* The approval driver *)

\* The call's approval sub-record is present with a non-empty id.
TicketExpected(call) == call.approval # None /\ call.approval.id # S("")

IsTicketRequest(r) == r.fn \in {"approve_tool", "reject_tool"}
IsLegacyRequest(r) == r.fn \in {"confirm_tool", "deny_tool"}

\* Request r is the one continuation request `call` must get.
RightPath(r, call) ==
    /\ r.call = call
    /\ call.state = S("input-available")
    /\ IsTicketRequest(r) <=> TicketExpected(call)
    /\ IsLegacyRequest(r) <=> ~TicketExpected(call)
    /\ IsTicketRequest(r) =>
          /\ DOMAIN r = {"fn", "approval_id", "call"}
          /\ r.approval_id = call.approval.id
    /\ IsLegacyRequest(r) =>
          /\ DOMAIN r = {"fn", "tool_call_id", "tool_name", "call"}
          /\ r.tool_call_id = call.toolCallId
          /\ r.tool_name = (IF call.toolName \in {None, S("")} THEN S("unknown")
                            ELSE call.toolName)

(* C4: for every pending call and every decision the continuation request
   is the ticket-keyed one (approve_tool / reject_tool, by approval id) iff
   the call's approval sub-record is present with a non-empty id, and the
   legacy one (confirm_tool / deny_tool, by tool-call id and tool name)
   otherwise; every request issued took exactly the path of its call, and a
   resolved stream got one request, for its last pending call. *)
C4_OnePathPerCall ==
    /\ \A i \in 1..Len(pending_tools(collect)) : \A decision \in {"approve", "deny"} :
          LET call == pending_tools(collect)[i]
              r == continuation(call, decision)
          IN /\ RightPath(r, call)
             /\ decision = "approve" <=> r.fn \in {"approve_tool", "confirm_tool"}
    /\ \A i \in 1..Len(requests) : RightPath(requests[i], requests[i].call)
    /\ status = "resolved" =>
          /\ requests # <<>>
          /\ Last(requests).call = Last(pending_tools(collect))

\* Both generations were resolved, the legacy one for a call whose approval has an empty id.
C4_Witness ==
    /\ \E i \in 1..Len(requests) : IsTicketRequest(requests[i])
    /\ \E i \in 1..Len(requests) :
          /\ IsLegacyRequest(requests[i])
          /\ requests[i].call.approval # None

---------------------------------------------------------------------------
(* The approval sub-record of a normalized ToolCall event *)

\* The raw 'approval' field is present, is a mapping and holds the key 'id'.
ApprovalParsed(rec) ==
    /\ "approval" \in DOMAIN rec
    /\ rec["approval"].t = "obj"
    /\ "id" \in DOMAIN rec["approval"].f

Normalized == norm_out # None

(* C5 as stated: the event carries an approval sub-record only when the raw
   'approval' field is present, is a mapping and contains a non-empty 'id'. *)
C5_ApprovalNeedsNonEmptyId ==
    (Normalized /\ norm_out.cls = "ToolCallEvent" /\ norm_out.approval # None)
    => (ApprovalParsed(norm_in) /\ norm_in["approval"].f["id"] # S(""))

(* C5 as amended: the event carries an approval sub-record only when the raw
   'approval' field is present, is a mapping and contains the key 'id',
   whatever the id's value (an empty id gives a sub-record with an empty id);
   for 'tool-call' and 'tool-input-available' records exactly then, with the
   id, approved and reason of the mapping; otherwise the field is absent. *)
C5_ApprovalNeedsIdKey ==
    (Normalized /\ norm_out.cls = "ToolCallEvent") =>
        /\ norm_out.approval # None
           <=> (/\ norm_in["type"].s \in {"tool-call", "tool-input-available"}
                /\ ApprovalParsed(norm_in))
        /\ norm_out.approval # None =>
              /\ norm_out.approval.id = norm_in["approval"].f["id"]
              /\ norm_out.approval.approved = Get(norm_in["approval"].f, "approved", None)
              /\ norm_out.approval.reason = Get(norm_in["approval"].f, "reason", None)

\* A mapping with an empty id was normalized to a sub-record with an empty id.
C5_Witness ==
    /\ Normalized
    /\ norm_out.cls = "ToolCallEvent"
    /\ norm_out.approval # None
    /\ norm_out.approval.id = S("")

---------------------------------------------------------------------------
C6_Scenario == <<DataLine(RecInputAvailable("t1"))>>

(* C6: a stream of the one line
   data: {"type":"tool-input-available","toolCallId":"t1",
          "toolName":"create_bucket","input":{}}
   (no 'approval' field) leaves t1 pending with no approval on the recorded
   event, so that it is resolved on the legacy path. *)
C6_LegacyPending ==
    (sent = C6_Scenario /\ status \in {"ended", "resolved"}) =>
        /\ CollectPending(collect) = {S("t1")}
        /\ Len(pending_tools(collect)) = 1
        /\ pending_tools(collect)[1].approval = None
        /\ pending_tools(collect)[1].toolName = S("create_bucket")
        /\ ~has_v6_approval(pending_tools(collect)[1])
        /\ fed = sent =>
              /\ ParserPending(parser) = {S("t1")}
              /\ parser.tool_calls[S("t1")].approval = None
        /\ status = "resolved" =>
              /\ IsLegacyRequest(Last(requests))
              /\ Last(requests).tool_call_id = S("t1")
              /\ Last(requests).tool_name = S("create_bucket")

C6_Witness ==
    /\ sent = C6_Scenario
    /\ fed = sent
    /\ status = "resolved"
    /\ S("t1") \in CollectPending(collect)

---------------------------------------------------------------------------
(* What the raw lines carry for the accumulator *)

IsTextLine(line) == WireType(line) \in {"text", "text-delta"}
IsFinishLine(line) == WireType(line) \in {"finish", "finish-step"}

\* The fragment of a text record: field 'text' (local) or 'delta' (production).
TextOf(line) ==
    IF WireType(line) = "text" THEN Get(WireRecord(line), "text", S("")).s
    ELSE IF WireType(line) = "text-delta" THEN Get(WireRecord(line), "delta", S("")).s
    ELSE ""

\* The usage record a line carries: the 'data' of a data-usage record, the
\* embedded 'usage' of a finish record, else none.
UsageOf(line) ==
    IF WireType(line) = "data-usage" THEN Get(WireRecord(line), "data", Obj(EmptyDict))
    ELSE IF IsFinishLine(line) /\ "usage" \in DOMAIN WireRecord(line)
              /\ WireRecord(line)["usage"].t = "obj"
    THEN WireRecord(line)["usage"]
    ELSE Obj(EmptyDict)

PromptOf(line) == Get(UsageOf(line).f, "promptTokens", N(0)).n
CompletionOf(line) == Get(UsageOf(line).f, "completionTokens", N(0)).n
ReasonOf(line) == Get(WireRecord(line), "finishReason", S("stop"))

RECURSIVE ConcatText(_)
ConcatText(lines) ==
    IF lines = <<>> THEN "" ELSE TextOf(Head(lines)) \o ConcatText(Tail(lines))

RECURSIVE SumPrompt(_)
SumPrompt(lines) ==
    IF lines = <<>> THEN 0 ELSE PromptOf(Head(lines)) + SumPrompt(Tail(lines))

RECURSIVE SumCompletion(_)
SumCompletion(lines) ==
    IF lines = <<>> THEN 0 ELSE CompletionOf(Head(lines)) + SumCompletion(Tail(lines))

---------------------------------------------------------------------------
(* C7 as stated: once finished is true, processing a further event leaves
   text, tool-call map, finishReason and both totals unchanged. *)
C7_FrozenAfterFinish ==
    [][(parser.finished /\ ReadStep) =>
          /\ parser'.accumulated_text = parser.accumulated_text
          /\ parser'.tool_calls = parser.tool_calls
          /\ parser'.finish_reason = parser.finish_reason
          /\ parser'.prompt_tokens = parser.prompt_tokens
          /\ parser'.completion_tokens = parser.completion_tokens]_vars

(* C7 as amended: finished stays true until reset, and the accumulator keeps
   folding: a further Text event appends its fragment, a ToolCall event is
   recorded under its id with no key removed, Usage and Finish-embedded usage
   add to the totals, and a further Finish replaces finishReason. *)
C7_FoldsAfterFinish ==
    [][(parser.finished /\ ReadStep) =>
          /\ parser'.finished
          /\ parser'.accumulated_text =
                (IF IsTextLine(StepLine)
                 THEN Append(parser.accumulated_text, S(TextOf(StepLine)))
                 ELSE parser.accumulated_text)
          /\ DOMAIN parser.tool_calls \subseteq DOMAIN parser'.tool_calls
          /\ \A id \in Ids : IsToolCallLine(StepLine, id) =>
                /\ id \in DOMAIN parser'.tool_calls
                /\ parser'.tool_calls[id].state = WirePhase(StepLine)
          /\ parser'.prompt_tokens = parser.prompt_tokens + PromptOf(StepLine)
          /\ parser'.completion_tokens = parser.completion_tokens + CompletionOf(StepLine)
          /\ parser'.finish_reason =
                (IF IsFinishLine(StepLine) THEN ReasonOf(StepLine)
                 ELSE parser.finish_reason)]_vars

\* Text, tokens and a tool call were folded after the Finish event.
C7_Witness ==
    /\ Len(fed) = 3
    /\ IsFinishLine(fed[1])
    /\ parser.finished
    /\ parser.accumulated_text # <<>>
    /\ parser.prompt_tokens > PromptOf(fed[1])

C8_Scenario ==
    <<DataLine(RecUsageA), DataLine(RecUsageB), DataLine(RecFinishStepUsage)>>

(* C8: since the last reset, promptTokens is the sum of promptTokens over
   every Usage event and every Finish event that embeds a usage record, and
   likewise completionTokens: Usage {10,5}, Usage {3,2}, Finish embedding
   {1,1} give 14 and 8. *)
C8_UsageAdditive ==
    /\ parser.prompt_tokens = SumPrompt(fed)
    /\ parser.completion_tokens = SumCompletion(fed)
    /\ fed = C8_Scenario =>
          /\ parser.prompt_tokens = 14
          /\ parser.completion_tokens = 8

C8_Witness ==
    /\ fed = C8_Scenario
    /\ parser.prompt_tokens = 14
    /\ parser.completion_tokens = 8

(* C9: the accumulated text is the concatenation, in delivery order, of the
   fragment of every Text event processed since the last reset, each exactly
   once, whether it came in field 'text' or in field 'delta'. *)
C9_TextConcatenation ==
    /\ text(parser) = ConcatText(fed)
    /\ Len(parser.accumulated_text)
          = Cardinality({ i \in 1..Len(fed) : IsTextLine(fed[i]) })

\* Both dialects in one stream.
C9_Witness ==
    /\ fed = <<DataLine(RecDeltaHello), DataLine(RecTextWorld)>>
    /\ text(parser) = "Hello world!"

C10_Scenario ==
    <<DataLine(RecTextHello), DataLine(RecTextWorld), DataLine(RecFinishStop)>>

(* C10: the lines text "Hello ", text "world!", finish "stop" yield exactly
   three events in that order and leave text = "Hello world!", finished,
   finishReason = "stop"; in general a Finish event sets finished and
   finishReason to its reason. *)
C10_FinishScenario ==
    /\ (sent = C10_Scenario /\ fed = sent) =>
          /\ collect.all_events =
                << [cls |-> "TextEvent", type |-> S("text"),
                    text |-> S("Hello "), state |-> None],
                   [cls |-> "TextEvent", type |-> S("text"),
                    text |-> S("world!"), state |-> None],
                   [cls |-> "FinishEvent", type |-> S("finish"),
                    finishReason |-> S("stop"), usage |-> None] >>
          /\ text(parser) = "Hello world!"
          /\ parser.finished
          /\ parser.finish_reason = S("stop")
    /\ (fed # <<>> /\ IsFinishLine(Last(fed))) =>
          /\ parser.finished
          /\ parser.finish_reason = ReasonOf(Last(fed))

C10_Witness ==
    /\ sent = C10_Scenario
    /\ fed = sent
    /\ status = "ended"
    /\ parser.finished

---------------------------------------------------------------------------
(* The line reader: failures *)

IsMalformedLine(line) == line.pre = "data: " /\ line.body.k = "malformed"
ProducesEvent(line) == line.pre = "data: " /\ line.body.k = "json"

\* The events of the lines that carry a JSON payload, in the order of the lines.
RECURSIVE ExpectedEvents(_)
ExpectedEvents(lines) ==
    IF lines = <<>> THEN <<>>
    ELSE IF ProducesEvent(Last(lines))
         THEN Append(ExpectedEvents(Front(lines)), parse_sse_event(WireRecord(Last(lines))))
         ELSE ExpectedEvents(Front(lines))

ParseFailed == status = "failed" /\ sent # <<>> /\ IsMalformedLine(Last(sent))
TransportFailed == status = "failed" /\ ~(sent # <<>> /\ IsMalformedLine(Last(sent)))

(* C11: a data line whose payload is not valid JSON ends the event sequence
   with a KaiStreamError: the events of the earlier lines were delivered, the
   malformed line yields none (nothing is folded), and once the sequence has
   failed no further line is read. *)
C11_MalformedEndsStream ==
    [][ /\ (ReadStep /\ IsMalformedLine(StepLine)) =>
              /\ status' = "failed"
              /\ error' # None
              /\ error'.cls = "KaiStreamError"
              /\ collect'.all_events = ExpectedEvents(sent)
              /\ collect' = collect
              /\ parser' = parser
        /\ status = "failed" =>
              /\ sent' = sent
              /\ collect' = collect
              /\ parser' = parser ]_vars

C11_Witness ==
    /\ ParseFailed
    /\ Len(sent) = 3
    /\ Len(collect.all_events) = 2

\* The class of the error a malformed data line raises.
ParseErrorKinds == { parse_line(line).err.cls : line \in {l \in ReaderLines : IsMalformedLine(l)} }

(* C12 as stated: a transport protocol error in the middle of the stream is
   raised as an error whose kind differs from the kind raised for malformed
   JSON. *)
C12_DistinctKinds ==
    TransportFailed => error.cls \notin ParseErrorKinds

(* C12, as the code has it: both failures are raised as the same kind,
   KaiStreamError; they differ in the message text and in the class of the
   chained exception. *)
C12_SameKindDistinctMessage ==
    status = "failed" =>
        /\ error.cls = "KaiStreamError"
        /\ ParseFailed =>
              /\ error.message[1] = "Failed to parse SSE event: "
              /\ error.chained.cls = "JSONDecodeError"
        /\ TransportFailed =>
              /\ error.message = <<"Connection error during streaming">>
              /\ error.chained.cls = "RemoteProtocolError"
              /\ error.cause = error.chained.str

C12_Witness ==
    /\ TransportFailed
    /\ Len(sent) = 2
    /\ Len(collect.all_events) = 1

\* The text that failed to decode, and str() of the decode error.
Fragment(line) == line.body.txt
DecodeText(line) == line.body.msg

\* The strings held by the fields of a KaiStreamError.
Carried(e) == { e.message[i] : i \in 1..Len(e.message) } \cup {e.cause}

(* C13 as stated: the error raised for a malformed data line carries the
   offending payload fragment and the underlying decode error. *)
C13_CarriesFragment ==
    ParseFailed =>
        /\ Fragment(Last(sent)) \in Carried(error)
        /\ DecodeText(Last(sent)) \in Carried(error)

(* C13, as the code has it: the error's message and cause hold the text of
   the decode error only; the offending fragment is in neither, and is to be
   found only as the document of the chained JSONDecodeError. *)
C13_CarriesDecodeErrorOnly ==
    ParseFailed =>
        /\ error.message = <<"Failed to parse SSE event: ", DecodeText(Last(sent))>>
        /\ error.cause = DecodeText(Last(sent))
        /\ Fragment(Last(sent)) \notin Carried(error)
        /\ error.chained.cls = "JSONDecodeError"
        /\ error.chained.doc = Fragment(Last(sent))

C13_Witness ==
    /\ ParseFailed
    /\ Fragment(Last(sent)) = "{not-json}"
    /\ error.cause = "Expecting property name enclosed in double quotes: line 1 column 2 (char 1)"

---------------------------------------------------------------------------
(* The line reader: lines without an event, and the order of events *)

\* Empty lines, comments, data lines with the [DONE] marker or nothing but
\* whitespace, and the metadata fields event:, id:, retry:.
IsIgnorable(line) ==
    \/ line.pre = "" /\ line.body.k = "none"
    \/ line.pre = ":"
    \/ line.pre = "data: " /\ line.body.k \in {"none", "blank", "done"}
    \/ line.pre \in {"event: ", "id: ", "retry: "}

RECURSIVE WithoutIgnorable(_)
WithoutIgnorable(lines) ==
    IF lines = <<>> THEN <<>>
    ELSE IF IsIgnorable(Last(lines)) THEN WithoutIgnorable(Front(lines))
         ELSE Append(WithoutIgnorable(Front(lines)), Last(lines))

(* C16: reading a blank line, a comment, a data line holding [DONE] or only
   whitespace, or an event: / id: / retry: line yields no event and raises
   nothing (trackers, position and error are as before), and the events
   delivered are those of the same stream with these lines taken out, so the
   event of a data line does not depend on a preceding event: line. *)
C16_IgnorableLinesAreNoOps ==
    [][ ReadStep =>
          /\ IsIgnorable(StepLine) =>
                /\ collect' = collect
                /\ parser' = parser
                /\ status' = status
                /\ error' = error
          /\ collect'.all_events = ExpectedEvents(WithoutIgnorable(sent')) ]_vars

C16_Witness ==
    /\ status = "streaming"
    /\ Len(sent) = 3
    /\ ProducesEvent(sent[1])
    /\ sent[2].pre = "event: "
    /\ ProducesEvent(sent[3])
    /\ Len(collect.all_events) = 2

\* A data line that carries a JSON object, with and without the space.
IsDataObjectLine(line) == line.pre \in {"data: ", "data:"} /\ line.body.k = "json"

(* C17 as stated: a line that begins with data: and carries a JSON object
   yields exactly one event, whether or not a space follows the colon. *)
C17_OneEventPerDataLine ==
    [][ (ReadStep /\ IsDataObjectLine(StepLine)) =>
            Len(collect'.all_events) = Len(collect.all_events) + 1 ]_vars

(* C17, as the code has it: a line that begins with "data: " (the colon and
   one space) and carries a JSON object yields exactly one event, the
   normalized record; a line that begins with "data:" without the space is
   skipped: it yields no event and raises nothing. *)
C17_OneEventPerSpacedDataLine ==
    [][ (ReadStep /\ IsDataObjectLine(StepLine)) =>
            IF StepLine.pre = "data: "
            THEN /\ collect'.all_events
                      = Append(collect.all_events, parse_sse_event(WireRecord(StepLine)))
                 /\ status' = status
            ELSE /\ collect' = collect
                 /\ parser' = parser
                 /\ status' = status
                 /\ error' = error ]_vars

C17_Witness ==
    /\ status = "streaming"
    /\ Len(sent) = 2
    /\ sent[1] = DataLine(RecTextHello)
    /\ sent[2].pre = "data:"
    /\ WireRecord(sent[2]) = RecTextHello
    /\ Len(collect.all_events) = 1

\* The text of each TextEvent of a sequence of events, in order.
RECURSIVE TextsIn(_)
TextsIn(events) ==
    IF events = <<>> THEN <<>>
    ELSE IF Last(events).cls = "TextEvent"
         THEN Append(TextsIn(Front(events)), Last(events).text)
         ELSE TextsIn(Front(events))

(* C18: the events delivered to the caller are, in order, one per
   event-producing line read (the k-th event is that of the k-th such line, none
   repeated, none left out), and the accumulator and the tracker have folded
   them in that order: their text buffers are the texts of the text lines in
   the order read. *)
C18_OrderPreserved ==
    /\ collect.all_events = ExpectedEvents(sent)
    /\ collect.text_parts = TextsIn(ExpectedEvents(sent))
    /\ parser.accumulated_text = TextsIn(ExpectedEvents(fed))

C18_Witness ==
    /\ Len(sent) = 3
    /\ Len(collect.all_events) = 3
    /\ collect.all_events[1] = parse_sse_event(RecTextWorld)
    /\ collect.all_events[2] = parse_sse_event(RecStepStart)
    /\ collect.all_events[3] = parse_sse_event(RecTextHello)
    /\ text(parser) = "world!Hello "

---------------------------------------------------------------------------
(* The trackers under interleaved ids, and the accumulator between resets *)

\* The events the tracker of stream_and_collect holds for an id (none or one).
Entries(c, id) ==
    { c.tool_states[i].value : i \in {j \in 1..Len(c.tool_states) : c.tool_states[j].key = id} }

\* The events the accumulator's map holds for an id (none or one).
MapEntries(p, id) ==
    IF id \in DOMAIN p.tool_calls THEN {p.tool_calls[id]} ELSE {}

(* C19: with the lifecycle records of several tool-call ids interleaved in
   any order, reading a record of one id makes that id's entry the event of
   this record (so each entry is the last ToolCall event of its id), and
   leaves the entry of every other id as it was: not changed, not added, not
   removed.  This holds for the accumulator's map and for the tracker's. *)
C19_LastWriteWinsPerId ==
    [][ ReadStep =>
          /\ DOMAIN parser'.tool_calls \subseteq Ids
          /\ \A id \in Ids :
                IF IsToolCallLine(StepLine, id)
                THEN /\ MapEntries(parser', id) = {parse_sse_event(WireRecord(StepLine))}
                     /\ Entries(collect', id) = {parse_sse_event(WireRecord(StepLine))}
                ELSE /\ MapEntries(parser', id) = MapEntries(parser, id)
                     /\ Entries(collect', id) = Entries(collect, id) ]_vars

C19_Witness ==
    /\ sent = <<DataLine(RecInputStart("t1")), DataLine(RecInputAvailableNoName("t2")),
                DataLine(RecInputAvailable("t1"))>>
    /\ MapEntries(parser, S("t1")) = {parse_sse_event(RecInputAvailable("t1"))}
    /\ MapEntries(parser, S("t2")) = {parse_sse_event(RecInputAvailableNoName("t2"))}
    /\ Entries(collect, S("t2")) = {parse_sse_event(RecInputAvailableNoName("t2"))}

\* seq1 is an initial part of seq2.
IsPrefix(seq1, seq2) ==
    /\ Len(seq1) <= Len(seq2)
    /\ SubSeq(seq2, 1, Len(seq1)) = seq1

(* C20: between two resets, processing an event never decreases
   prompt_tokens or completion_tokens, never shortens or rewrites the text
   buffer (the buffer before is an initial part of the buffer after), and
   never removes a key from the tool-call map.  The usage counts of the
   events are non-negative integers, as UsageInfo declares them. *)
C20_Monotonic ==
    [][ ReadStep =>
          /\ parser'.prompt_tokens >= parser.prompt_tokens
          /\ parser'.completion_tokens >= parser.completion_tokens
          /\ IsPrefix(parser.accumulated_text, parser'.accumulated_text)
          /\ DOMAIN parser.tool_calls \subseteq DOMAIN parser'.tool_calls ]_vars

C20_Witness ==
    /\ Len(fed) = 3
    /\ parser.prompt_tokens = 13
    /\ parser.completion_tokens = 7
    /\ Len(parser.accumulated_text) = 1

---------------------------------------------------------------------------
(* The accumulator: reset, failure, resumption *)

\* The state of a new accumulator after processing the events in order.
RECURSIVE FoldParser(_)
FoldParser(events) ==
    IF events = <<>> THEN NewParser
    ELSE process_event(FoldParser(Front(events)), Last(events))

\* The locals of a new stream_and_collect after its loop body took the events in order.
RECURSIVE FoldCollect(_)
FoldCollect(events) ==
    IF events = <<>> THEN NewCollect
    ELSE collect_event(FoldCollect(Front(events)), Last(events))

\* A step of reset(): the accumulator's history is emptied, no line is read.
ResetStep == fed' = <<>> /\ sent' = sent /\ status' = status

(* C21: a reset leaves the accumulator, whatever it processed before, in
   the state of a freshly created one (no text, no tool calls, not finished,
   no finish reason, both totals 0); resetting again changes nothing; and the
   state after processing events since the last reset is the state a new
   instance has after processing the same events. *)
C21_ResetIsFresh ==
    [][ /\ ResetStep =>
              /\ parser' = NewParser
              /\ text(parser') = ""
              /\ DOMAIN parser'.tool_calls = {}
              /\ reset(parser') = parser'
        /\ parser' = FoldParser(ExpectedEvents(fed')) ]_vars

C21_Witness ==
    /\ sent = <<DataLine(RecUsageA), DataLine(RecFinishStepUsage), DataLine(RecUsageB)>>
    /\ fed = <<DataLine(RecUsageB)>>
    /\ parser.prompt_tokens = 3
    /\ parser.finished = FALSE

(* C22: when the consumption of a stream fails (a malformed line, a
   transport error) or the caller cancels it, after k events were delivered,
   the accumulator and the tracker are exactly the fold of those k events:
   the step that ends the stream rewrites nothing and applies nothing. *)
C22_FailureKeepsFold ==
    [][ (status = "streaming" /\ status' \in {"failed", "cancelled"}) =>
          /\ parser' = parser
          /\ collect' = collect
          /\ parser' = FoldParser(ExpectedEvents(fed'))
          /\ collect' = FoldCollect(ExpectedEvents(sent'))
          /\ Len(collect'.all_events) = Len(ExpectedEvents(sent')) ]_vars

C22_Witness ==
    /\ status = "cancelled"
    /\ sent = <<DataLine(RecTextHello), DataLine(RecTextWorld)>>
    /\ text(parser) = "Hello world!"
    /\ Len(collect.all_events) = 2

(* C23: with the continuation streams fed through the same accumulator as
   the original stream and no reset in between, over any number of approve /
   resume cycles the calls the accumulator holds as pending are those whose
   last lifecycle record over all the streams announces input-available (a
   call pending at the end of one stream that receives output-available in
   the continuation is not pending, a call that reaches input-available in
   the continuation is), and the text and both token totals are those of all
   the streams together. *)
C23_ConsistentAcrossStreams ==
    /\ ParserPending(parser) = {id \in Ids : LastPhase(fed, id) = S("input-available")}
    /\ text(parser) = ConcatText(fed)
    /\ parser.prompt_tokens = SumPrompt(fed)
    /\ parser.completion_tokens = SumCompletion(fed)

C23_Witness ==
    /\ Len(requests) = 1
    /\ fed = <<DataLine(RecInputAvailable("t1")), DataLine(RecFinishStepUsage),
               DataLine(RecOutputAvailable("t1"))>>
    /\ sent = <<DataLine(RecOutputAvailable("t1"))>>
    /\ ParserPending(parser) = {}
    /\ parser.prompt_tokens = 1

---------------------------------------------------------------------------
(* The approval driver: when the continuation is issued, and what it carries *)

\* A step that issues a continuation request.
IssueStep == requests' # requests

(* C24: a stream that ends with a tool call left in input-available is
   followed by a continuation call for that call: the request is issued after
   the stream has ended (no line of it is read with or after the request), on
   the legacy path it carries the tool-call id and the tool name of the
   pending record, and the events of the continuation belong to a stream
   started afterwards: the events of the ended stream are complete before
   any event of the continuation is delivered. *)
C24_ContinuationAfterEnd ==
    [][ /\ IssueStep =>
              /\ status = "ended"
              /\ status' = "resolved"
              /\ sent' = sent
              /\ collect' = collect
              /\ Len(requests') = Len(requests) + 1
              /\ LET r == Last(requests') IN
                    /\ r.call = Last(pending_tools(collect))
                    /\ r.call.toolCallId \in CollectPending(collect)
                    /\ IsLegacyRequest(r) =>
                          /\ r.tool_call_id = r.call.toolCallId
                          /\ Truthy(r.call.toolName) => r.tool_name = r.call.toolName
        /\ status # "streaming" =>
              \/ collect' = collect
              \/ status' = "streaming" /\ collect' = NewCollect /\ fed' = fed ]_vars

\* The run of test_chat_with_tool_call_auto_approve: the stream ends with the
\* call pending, confirm_tool is issued, the continuation brings text and finish.
C24_Witness ==
    /\ fed = <<DataLine(RecInputAvailable("t1")), DataLine(RecTextHello),
               DataLine(RecFinishStop)>>
    /\ sent = <<DataLine(RecTextHello), DataLine(RecFinishStop)>>
    /\ Len(requests) = 1
    /\ requests[1].fn = "confirm_tool"
    /\ requests[1].tool_call_id = S("t1")
    /\ requests[1].tool_name = S("create_bucket")
    /\ text(parser) = "Hello "
    /\ parser.finished

(* C25: a request on the legacy path carries the tool-call id of the pending
   record and its tool name, or the name "unknown" when the record has none;
   a pending record without a tool name is resolved like any other: whenever
   a stream has ended with calls pending, the resolution can be issued. *)
C25_LegacyCarriesIdAndName ==
    /\ \A i \in 1..Len(requests) :
          IsLegacyRequest(requests[i]) =>
              /\ requests[i].tool_call_id = requests[i].call.toolCallId
              /\ requests[i].tool_name =
                    IF requests[i].call.toolName \in {None, S("")}
                    THEN S("unknown") ELSE requests[i].call.toolName
    /\ (status = "ended" /\ CollectPending(collect) # {}) =>
          \A decision \in {"approve", "deny"} : ENABLED Resolve(decision)

C25_Witness ==
    /\ status = "resolved"
    /\ IsLegacyRequest(Last(requests))
    /\ Last(requests).call.toolName = None
    /\ Last(requests).tool_name = S("unknown")
    /\ Last(requests).tool_call_id = S("t2")

---------------------------------------------------------------------------
(* The two dialects *)

\* The record of the production dialect that stands for a record of the
\* local one: text -> text-delta with the content in 'delta', step-start ->
\* start-step, finish -> finish-step; any other record is left as it is.
ToProduction(rec) ==
    LET ty == Get(rec, "type", S("")) IN
    IF ty = S("text")
    THEN [k \in ((DOMAIN rec) \ {"text"}) \cup
                 (IF "text" \in DOMAIN rec THEN {"delta"} ELSE {}) |->
             IF k = "type" THEN S("text-delta")
             ELSE IF k = "delta" THEN rec["text"]
             ELSE rec[k]]
    ELSE IF ty = S("step-start") THEN [rec EXCEPT !["type"] = S("start-step")]
    ELSE IF ty = S("finish") THEN [rec EXCEPT !["type"] = S("finish-step")]
    ELSE rec

\* The stream with each event-producing line replaced by its production form.
RECURSIVE Translated(_)
Translated(lines) ==
    IF lines = <<>> THEN <<>>
    ELSE Append(Translated(Front(lines)),
                IF ProducesEvent(Last(lines))
                THEN DataLine(ToProduction(WireRecord(Last(lines))))
                ELSE Last(lines))

\* Records of the local dialect, with and without their optional fields.
LocalRecords ==
    { [type |-> S("text")], RecTextHello, RecTextWorld,
      [type |-> S("text"), text |-> S("Hello "), state |-> S("done")],
      RecStepStart, [type |-> S("finish")], RecFinishStop,
      [type |-> S("finish"), finishReason |-> S("tool-calls"), usage |-> Usage(1, 1)] }

(* C26: replacing, in any stream, each 'text' record by a 'text-delta'
   record with the same content in 'delta', each 'step-start' by 'start-step'
   and each 'finish' by 'finish-step' gives the same normalized events and
   the same accumulator state: each record normalizes to the event of its
   production form, and the events delivered and the state reached are those
   of the translated stream. *)
C26_DialectsEquivalent ==
    /\ \A rec \in LocalRecords : parse_sse_event(rec) = parse_sse_event(ToProduction(rec))
    /\ collect.all_events = ExpectedEvents(Translated(sent))
    /\ parser = FoldParser(ExpectedEvents(Translated(fed)))

C26_Witness ==
    /\ sent = <<DataLine(RecStepStart), DataLine(RecTextHello), DataLine(RecFinishStop)>>
    /\ Translated(sent) # sent
    /\ WireType(Translated(sent)[2]) = "text-delta"
    /\ text(parser) = "Hello "
    /\ parser.finished

---------------------------------------------------------------------------
(* Concurrent streams *)

(* C27: two streams consumed concurrently, each by its own accumulator,
   share nothing: a step of one consumer leaves the other accumulator as it
   was, and under every interleaving each accumulator's state is the one it
   reaches by processing its own stream alone. *)
C27_InstancesIndependent ==
    [][ /\ twin' # twin => parser' = parser
        /\ parser' # parser => twin' = twin
        /\ parser' = FoldParser(ExpectedEvents(fed'))
        /\ twin'.parser = FoldParser(ExpectedEvents(twin'.fed)) ]_vars

C27_Witness ==
    /\ fed = <<DataLine(RecInputAvailable("t1")), DataLine(RecTextHello)>>
    /\ twin.fed = <<DataLine(RecInputAvailable("t1")), DataLine(RecOutputAvailable("t1")),
                    DataLine(RecUsageA)>>
    /\ ParserPending(parser) = {S("t1")}
    /\ ParserPending(twin.parser) = {}
    /\ parser.prompt_tokens = 0
    /\ twin.parser.prompt_tokens = 10

---------------------------------------------------------------------------
(* Application-level errors, and the end of the sequence *)

IsAppErrorLine(line) == WireType(line) \in {"error", "tool-output-error"}

(* C28: an 'error' record and a 'tool-output-error' record in a well-formed
   stream are delivered as ordinary events (an ErrorEvent, a
   ToolOutputErrorEvent) and do not end or fail the sequence: the reader goes
   on, and every event-producing line read after them is delivered, in
   order. *)
C28_AppErrorsAreEvents ==
    [][ ReadStep =>
          /\ IsAppErrorLine(StepLine) =>
                /\ status' = "streaming"
                /\ error' = None
                /\ Len(collect'.all_events) = Len(collect.all_events) + 1
                /\ Last(collect'.all_events).cls =
                      (IF WireType(StepLine) = "error"
                       THEN "ErrorEvent" ELSE "ToolOutputErrorEvent")
          /\ (\E i \in 1..Len(sent) : IsAppErrorLine(sent[i])) =>
                /\ collect'.all_events = ExpectedEvents(sent')
                /\ ProducesEvent(StepLine) =>
                      collect'.all_events
                        = Append(collect.all_events, parse_sse_event(WireRecord(StepLine))) ]_vars

C28_Witness ==
    /\ status = "streaming"
    /\ sent = <<DataLine(RecError), DataLine(RecOutputError("t1")), DataLine(RecTextHello)>>
    /\ Len(collect.all_events) = 3
    /\ collect.all_events[1].message = S("Something went wrong")
    /\ collect.all_events[3].cls = "TextEvent"
    /\ text(parser) = "Hello "

\* The number of event-producing lines among `lines`.
RECURSIVE CountEventLines(_)
CountEventLines(lines) ==
    IF lines = <<>> THEN 0
    ELSE CountEventLines(Front(lines)) + (IF ProducesEvent(Last(lines)) THEN 1 ELSE 0)

(* C29: over a finite line source the event sequence comes to an end; when
   the source is exhausted or the transport closes between records it ends
   normally, with no error, having yielded one event for each event-producing
   line read; it fails only on a malformed line or a transport protocol
   error. *)
C29_Terminates ==
    /\ <>(status # "streaming")
    /\ [](status = "ended" =>
             /\ error = None
             /\ Len(collect.all_events) = CountEventLines(sent)
             /\ \A i \in 1..Len(sent) : ~IsMalformedLine(sent[i]))
    /\ [](status = "failed" =>
             error.chained.cls \in {"JSONDecodeError", "RemoteProtocolError"})

C29_Witness ==
    /\ status = "ended"
    /\ error = None
    /\ Len(sent) = 3
    /\ CountEventLines(sent) = 2
    /\ Len(collect.all_events) = 2

---------------------------------------------------------------------------
(* The normalizer: records it must not fail on *)

\* The 'type' of the raw record is a key of EVENT_PARSERS.
TypeInTable(rec) ==
    /\ "type" \in DOMAIN rec
    /\ rec["type"].t = "str"
    /\ rec["type"].s \in EVENT_PARSERS

\* The event class each wire type is documented to normalize to.
MappedKind(ty) ==
    CASE ty \in {"text", "text-delta"} -> "TextEvent"
      [] ty \in {"step-start", "start-step"} -> "StepStartEvent"
      [] ty \in {"tool-call", "tool-input-start", "tool-input-available",
                 "tool-output-available"} -> "ToolCallEvent"
      [] ty = "tool-output-error" -> "ToolOutputErrorEvent"
      [] ty = "tool-approval-request" -> "ToolApprovalRequestEvent"
      [] ty = "data-usage" -> "UsageEvent"
      [] ty \in {"finish", "finish-step"} -> "FinishEvent"
      [] ty = "error" -> "ErrorEvent"

(* C14: a raw record whose 'type' is no key of the dispatch table (a record
   with no 'type' included) normalizes, without an exception, to an
   UnknownEvent whose type is the record's type (the empty string when it has
   none) and whose data is the record itself. *)
C14_UnknownNeverRaises ==
    (Normalized /\ ~TypeInTable(norm_in)) =>
        /\ ~Raised(norm_out)
        /\ norm_out.cls = "UnknownEvent"
        /\ norm_out.type = Get(norm_in, "type", S(""))
        /\ norm_out.data = norm_in

(* C15: a raw record whose 'type' is a key of the dispatch table normalizes,
   without an exception, to an event of the kind mapped to that type, whatever
   its optional fields hold. *)
C15_KnownNeverRaises ==
    (Normalized /\ TypeInTable(norm_in)) =>
        /\ ~Raised(norm_out)
        /\ norm_out.cls = MappedKind(norm_in["type"].s)

---------------------------------------------------------------------------
(* The error classifier *)

\* The kind each status is classified as.
KindOfStatus(status_code) ==
    IF status_code = 401 THEN "KaiAuthenticationError"
    ELSE IF status_code = 403 THEN "KaiForbiddenError"
    ELSE IF status_code = 404 THEN "KaiNotFoundError"
    ELSE IF status_code = 429 THEN "KaiRateLimitError"
    ELSE IF status_code = 400 THEN "KaiBadRequestError"
    ELSE "KaiError"

(* C30: a control-plane response with an error status raises the error kind
   of its status, whatever its body's code says (401 authentication, 403
   forbidden, 404 not-found, 429 rate-limited, 400 bad-request, any other
   4xx / 5xx the generic error), and the error carries the code, the message
   and, when there is one, the cause of the body unchanged. *)
C30_ClassifiedByStatus ==
    error # None =>
        /\ norm_in.status_code >= 400
        /\ error.cls = KindOfStatus(norm_in.status_code)
        /\ error.code = Get(norm_in.body, "code", None)
        /\ error.message = Get(norm_in.body, "message", None)
        /\ error.cause = Get(norm_in.body, "cause", None)
        /\ "cause" \in DOMAIN norm_in.body => error.cause = norm_in.body["cause"]

\* A not-found status with the body of a bad request that names a cause.
C30_Witness ==
    /\ error # None
    /\ norm_in.status_code = 404
    /\ error.cls = "KaiNotFoundError"
    /\ error.code = S("bad_request:api")
    /\ error.cause = S("Missing required field: message")

---------------------------------------------------------------------------
(* The snapshot of the tool-call map *)

(* C31: the dict the tool_calls property returns is detached from the
   accumulator.  A step of the caller (taking the dict; adding, replacing or
   deleting an entry of it) leaves the accumulator's own map as it was; a
   step of the accumulator (an event processed, a reset) leaves a dict taken
   earlier as it was; and the dict holds, when taken, the entries of the
   map. *)
C31_SnapshotDetached ==
    [][ /\ (sent' = sent /\ fed' = fed) => parser' = parser
        /\ (sent' # sent \/ fed' # fed) => snapshot' = snapshot
        /\ snapshot' # snapshot => parser'.tool_calls = parser.tool_calls
        /\ (snapshot = None /\ snapshot' # None) => snapshot'.d = parser.tool_calls ]_vars

\* Taken with t1 pending; then the caller added an entry, and the accumulator
\* processed t2 and the output of t1.
C31_Witness ==
    /\ snapshot # None
    /\ DOMAIN snapshot.d = {S("t1"), S("x1")}
    /\ snapshot.d[S("t1")].state = S("input-available")
    /\ DOMAIN parser.tool_calls = {S("t1"), S("t2")}
    /\ parser.tool_calls[S("t1")].state = S("output-available")

---------------------------------------------------------------------------
(* Events the accumulator has no branch for *)

\* The classes process_event tests for.
FoldedKinds == {"TextEvent", "ToolCallEvent", "UsageEvent", "FinishEvent"}

\* A step in which the caller received one more event, and that event.
DeliverStep == Len(collect'.all_events) = Len(collect.all_events) + 1
StepEvent == Last(collect'.all_events)

(* C32: processing a StepStart, Error, ToolOutputError, ToolApprovalRequest
   or Unknown event leaves every field of the accumulator (text buffer,
   tool-call map, finished, finish reason, both token totals) as it was; each
   of the five kinds of record is delivered as an event of its kind. *)
C32_UnfoldedKindsChangeNothing ==
    [][ /\ (DeliverStep /\ StepEvent.cls \notin FoldedKinds) =>
              /\ StepEvent.cls \in {"StepStartEvent", "ErrorEvent", "ToolOutputErrorEvent",
                                    "ToolApprovalRequestEvent", "UnknownEvent"}
              /\ parser'.accumulated_text = parser.accumulated_text
              /\ parser'.tool_calls = parser.tool_calls
              /\ parser'.finished = parser.finished
              /\ parser'.finish_reason = parser.finish_reason
              /\ parser'.prompt_tokens = parser.prompt_tokens
              /\ parser'.completion_tokens = parser.completion_tokens
        /\ (ReadStep /\ WireType(StepLine) \in {"step-start", "error", "tool-output-error",
                                                 "tool-approval-request", "start"}) =>
              /\ DeliverStep
              /\ StepEvent.cls \notin FoldedKinds ]_vars

\* A pending call, then an error for it and an approval request: the call is
\* still recorded as it was.
C32_Witness ==
    /\ sent = <<DataLine(RecInputAvailable("t1")), DataLine(RecOutputError("t1")),
                DataLine(RecApprovalRequest("a1", "t1"))>>
    /\ Len(collect.all_events) = 3
    /\ collect.all_events[3].cls = "ToolApprovalRequestEvent"
    /\ parser = FoldParser(<<parse_sse_event(RecInputAvailable("t1"))>>)
    /\ ~parser.finished

---------------------------------------------------------------------------
(* Generation detection and the tool-approval-request record *)

RECURSIVE LastToolRecord(_, _)
\* The last tool-call lifecycle record of `id` among `lines`, the empty record if none.
LastToolRecord(lines, id) ==
    IF lines = <<>> THEN EmptyDict
    ELSE IF IsToolCallLine(Last(lines), id) THEN WireRecord(Last(lines))
    ELSE LastToolRecord(Front(lines), id)

\* The record carries an approval mapping with a non-empty id.
TicketInRecord(rec) == ApprovalParsed(rec) /\ rec["approval"].f["id"] # S("")

\* A tool-approval-request record for `id` is among `lines`.
RequestAnnounced(lines, id) ==
    \E i \in 1..Len(lines) :
        /\ WireType(lines[i]) = "tool-approval-request"
        /\ Get(WireRecord(lines[i]), "toolCallId", S("")) = id

(* C33: the generation of a pending call is decided by the approval
   sub-record of the latest ToolCall record of its id alone.  A
   tool-approval-request record is delivered as an event but changes no
   tracked record, in the tracker and in the accumulator; a pending call is
   on the ticket path exactly when its latest ToolCall record carries an
   approval with a non-empty id, so a call whose ticket was announced only by
   a tool-approval-request record is resolved on the legacy path, by
   tool-call id. *)
C33_RequestDoesNotSetGeneration ==
    [][ /\ (ReadStep /\ WireType(StepLine) = "tool-approval-request") =>
              /\ DeliverStep
              /\ StepEvent.cls = "ToolApprovalRequestEvent"
              /\ collect'.tool_states = collect.tool_states
              /\ parser'.tool_calls = parser.tool_calls
        /\ \A i \in 1..Len(pending_tools(collect')) :
              LET call == pending_tools(collect')[i] IN
              has_v6_approval(call) <=> TicketInRecord(LastToolRecord(sent', call.toolCallId))
        /\ IssueStep =>
              LET r == Last(requests') IN
              /\ IsTicketRequest(r) <=> TicketInRecord(LastToolRecord(sent, r.call.toolCallId))
              /\ (RequestAnnounced(sent, r.call.toolCallId)
                   /\ ~TicketInRecord(LastToolRecord(sent, r.call.toolCallId))) =>
                      /\ IsLegacyRequest(r)
                      /\ r.tool_call_id = r.call.toolCallId ]_vars

\* The ticket a1 was announced for t1 by a tool-approval-request record only;
\* the call was confirmed by its tool-call id.
C33_Witness ==
    /\ sent = <<DataLine(RecInputAvailable("t1")), DataLine(RecApprovalRequest("a1", "t1"))>>
    /\ status = "resolved"
    /\ Last(requests).fn = "confirm_tool"
    /\ Last(requests).tool_call_id = S("t1")
    /\ Last(collect.all_events).cls = "ToolApprovalRequestEvent"
    /\ Last(collect.all_events).approvalId = S("a1")

---------------------------------------------------------------------------
(* finished and the finish reason *)

RECURSIVE LastReason(_)
\* The reason of the last 'finish' or 'finish-step' record among `lines`, None if none.
LastReason(lines) ==
    IF lines = <<>> THEN None
    ELSE IF IsFinishLine(Last(lines)) THEN ReasonOf(Last(lines))
    ELSE LastReason(Front(lines))

(* C34: finished is true exactly when a Finish event, of a 'finish' or of a
   'finish-step' record (that of an intermediate step included), was
   processed since the last reset; once true it stays true in every step but
   a reset; and the finish reason is the reason of the most recently
   processed Finish event (none before the first). *)
C34_FinishedSinceReset ==
    [][ /\ parser'.finished <=> (\E i \in 1..Len(fed') : IsFinishLine(fed'[i]))
        /\ parser'.finish_reason = LastReason(fed')
        /\ (parser.finished /\ fed' # <<>>) => parser'.finished
        /\ (parser.finished /\ fed' = <<>>) => (~parser'.finished /\ parser'.finish_reason = None)
      ]_vars

\* The finish-step of an intermediate step set finished with its reason; the
\* stream went on, and the final finish replaced the reason.
C34_Witness ==
    /\ fed = <<DataLine(RecFinishStepUsage), DataLine(RecTextHello), DataLine(RecFinishStop)>>
    /\ parser.finished
    /\ parser.finish_reason = S("stop")
    /\ text(parser) = "Hello "

---------------------------------------------------------------------------
(* The accumulator at the moment an event is handed to the caller *)

(* C35: consume_stream applies each event to the accumulator before it
   yields it.  In the step in which the caller receives its k-th event, the
   accumulator the caller sees is the fold of the events 1..k, the received
   one included and no later one; a step that delivers no event (a skipped
   line, the end, a failure, a cancellation) leaves what the caller saw, and
   the accumulator, as they were. *)
C35_AppliedBeforeYield ==
    [][ /\ DeliverStep =>
              /\ observed' = FoldParser(collect'.all_events)
              /\ observed' = process_event(FoldParser(collect.all_events), StepEvent)
              /\ parser' = observed'
        /\ ~DeliverStep =>
              /\ observed' = observed
              /\ parser' = parser ]_vars

\* Two text events with a comment line between them: at the second event the
\* caller sees both fragments.
C35_Witness ==
    /\ sent = <<DataLine(RecTextHello), Line(":", [k |-> "other"]), DataLine(RecTextWorld)>>
    /\ Len(collect.all_events) = 2
    /\ observed # None
    /\ text(observed) = "Hello world!"

---------------------------------------------------------------------------
(* Data lines with valid JSON *)

\* The payload of the data line is syntactically valid JSON.
IsValidJsonLine(line) == line.pre = "data: " /\ line.body.k = "json"

(* C36: every data line whose payload is syntactically valid JSON, an object
   or not (a number, a string, an array, true / false / null), either yields
   an event, the stream going on, or fails the sequence with the stream
   error, KaiStreamError; no failure of another kind leaves the reader. *)
C36_ValidJsonYieldsOrStreamError ==
    [][ (ReadStep /\ IsValidJsonLine(StepLine)) =>
            \/ DeliverStep /\ status' = "streaming" /\ error' = None
            \/ ~DeliverStep /\ status' = "failed" /\ error'.cls = "KaiStreamError" ]_vars

---------------------------------------------------------------------------
(* The phase of a normalized tool record *)

\* The phase a production wire type stands for.
PhaseOfType(ty) ==
    IF ty = "tool-input-start" THEN S("started")
    ELSE IF ty = "tool-input-available" THEN S("input-available")
    ELSE S("output-available")

\* The raw record is a tool record whose 'state', if any, is a string.
IsToolRecord(rec) ==
    /\ TypeInTable(rec)
    /\ rec["type"].s \in ToolTypes
    /\ "state" \in DOMAIN rec => rec["state"].t = "str"

(* C37: a production tool record gets its phase from its wire type alone:
   'tool-input-start' normalizes to phase 'started', 'tool-input-available'
   to 'input-available', 'tool-output-available' to 'output-available',
   whatever a 'state' field of the record says; a local 'tool-call' record
   keeps its 'state' string as it is, the empty string when it has none. *)
C37_PhaseFromWireType ==
    (Normalized /\ IsToolRecord(norm_in)) =>
        /\ norm_out.cls = "ToolCallEvent"
        /\ norm_out.type = S("tool-call")
        /\ norm_out.state =
              IF norm_in["type"].s = "tool-call"
              THEN (IF "state" \in DOMAIN norm_in THEN norm_in["state"] ELSE S(""))
              ELSE PhaseOfType(norm_in["type"].s)

\* A tool-output-available record that says 'input-available' in its state.
C37_Witness ==
    /\ Normalized
    /\ norm_in = [type |-> S("tool-output-available"), toolCallId |-> S("t1"),
                  state |-> S("input-available")]
    /\ norm_out.state = S("output-available")

---------------------------------------------------------------------------
(* Lines that are no SSE field *)

\* A non-empty line that starts with none of 'data: ', ':', 'event: ', 'id: ', 'retry: '.
IsUnrecognized(line) ==
    /\ line.pre \notin {"data: ", ":", "event: ", "id: ", "retry: "}
    /\ ~(line.pre = "" /\ line.body.k = "none")

(* C38: a non-empty line that starts with none of the recognized prefixes
   is skipped silently: reading it yields no event and raises no error
   (trackers, position and error are as before), and the reader goes on: the
   events delivered are those of the event-producing lines read, those read
   after such a line included. *)
C38_UnrecognizedSkipped ==
    [][ ReadStep =>
          /\ IsUnrecognized(StepLine) =>
                /\ collect' = collect
                /\ parser' = parser
                /\ status' = "streaming"
                /\ error' = None
          /\ (\E i \in 1..Len(sent) : IsUnrecognized(sent[i])) =>
                /\ Len(collect'.all_events) = CountEventLines(sent')
                /\ ProducesEvent(StepLine) =>
                      StepEvent = parse_sse_event(WireRecord(StepLine)) ]_vars

\* Text with no prefix, then a data line without the space, then a text record.
C38_Witness ==
    /\ status = "streaming"
    /\ sent = <<Line("", [k |-> "other"]),
                Line("data:", [k |-> "json", v |-> Obj(RecTextHello)]),
                DataLine(RecTextHello)>>
    /\ Len(collect.all_events) = 1
    /\ text(parser) = "Hello "

====
